---------------------------- MODULE Spec2Model ----------------------------
(***************************************************************************)
(* A model of the pdf-ops engines: PDFMerger (merge, split, extract) and   *)
(* PDFEditor (rotate).  Text fields hold character sequences, documents    *)
(* are page sequences, and every worker thread is a small program-counter  *)
(* machine whose steps follow the statements of the Python method.         *)
(***************************************************************************)
EXTENDS Integers, Sequences, FiniteSets, TLC

(***************************************************************************)
(* Bounds of the model.                                                    *)
(***************************************************************************)
\* Largest page count of an input document.
MaxPages == 4
\* Largest page count of a document given to an edit operation.
MaxEditPages == 2
\* Every character sequence up to this length is tried as a range string.
MaxLen == 3
\* Every character sequence up to this length is tried as a "Pages per PDF".
MaxCountLen == 2
\* Range strings made of up to this many well-formed tokens are tried too.
MaxTokens == 2
\* At most this many worker threads are started in a run.
MaxThreads == 3
\* The clock is followed for this many seconds.
MaxClock == 1
\* File sizes from 0 to this many bytes are tried,
MaxSize == 6
\* and this size and the next one, where one byte is less than 0.05 percent.
LargeSize == 4001

(***************************************************************************)
(* Characters and strings.  A string is a sequence of one-character        *)
(* strings, so that split, strip and int are computed, not assumed.        *)
(***************************************************************************)
DigitChars == <<"0", "1", "2", "3", "4", "5", "6", "7", "8", "9">>

IsDigit(c) == \E k \in 1..Len(DigitChars) : DigitChars[k] = c

DigitVal(c) == (CHOOSE k \in 1..Len(DigitChars) : DigitChars[k] = c) - 1

\* The characters a user types into a range field in this model.
RangeDigits == {"0", "1", "2", "3", "4"}
RangeChars == RangeDigits \cup {"-", ",", " ", "x"}

\* str.strip(): leading and trailing whitespace removed.
RECURSIVE LStrip(_)
LStrip(s) == IF s # <<>> /\ Head(s) = " " THEN LStrip(Tail(s)) ELSE s

RECURSIVE RStrip(_)
RStrip(s) ==
    IF s # <<>> /\ s[Len(s)] = " " THEN RStrip(SubSeq(s, 1, Len(s) - 1)) ELSE s

Strip(s) == RStrip(LStrip(s))

\* sep in s
Contains(s, sep) == \E k \in 1..Len(s) : s[k] = sep

\* str.split(sep): every occurrence of sep cuts; "" gives [""].
RECURSIVE SplitFrom(_, _, _)
SplitFrom(s, sep, cur) ==
    IF s = <<>> THEN <<cur>>
    ELSE IF Head(s) = sep THEN <<cur>> \o SplitFrom(Tail(s), sep, <<>>)
    ELSE SplitFrom(Tail(s), sep, Append(cur, Head(s)))

Split(s, sep) == SplitFrom(s, sep, <<>>)

\* The digits of a literal: what follows its optional sign.
Unsigned(t) == IF t # <<>> /\ Head(t) \in {"-", "+"} THEN Tail(t) ELSE t

\* int(s) succeeds: after stripping whitespace, an optional sign and one or
\* more decimal digits.
IsInt(s) ==
    LET t == Unsigned(Strip(s)) IN t # <<>> /\ \A k \in 1..Len(t) : IsDigit(t[k])

RECURSIVE DecimalValue(_, _)
DecimalValue(t, acc) ==
    IF t = <<>> THEN acc ELSE DecimalValue(Tail(t), 10 * acc + DigitVal(Head(t)))

\* int(s), for a string on which int succeeds.
ToInt(s) ==
    LET t == Strip(s) IN
    IF Head(t) = "-" THEN 0 - DecimalValue(Tail(t), 0)
    ELSE DecimalValue(Unsigned(t), 0)

\* list(range(a, b))
Range(a, b) == IF b > a THEN [k \in 1..(b - a) |-> a + k - 1] ELSE <<>>

\* s.join(parts)
RECURSIVE Join(_, _)
Join(parts, sep) ==
    IF parts = <<>> THEN <<>>
    ELSE IF Len(parts) = 1 THEN parts[1]
    ELSE parts[1] \o <<sep>> \o Join(Tail(parts), sep)

(***************************************************************************)
(* The range strings tried: every string over RangeChars up to MaxLen      *)
(* characters, and the strings "t1,t2,..." of up to MaxTokens tokens of    *)
(* the shapes N and A-B.                                                   *)
(***************************************************************************)
SeqsUpTo(S, n) == UNION {[1..k -> S] : k \in 0..n}

RangeTokens ==
    {<<d>> : d \in RangeDigits}
        \cup {<<a, "-", b>> : a \in RangeDigits, b \in RangeDigits}

TokenStrings ==
    {Join(ts, ",") : ts \in SeqsUpTo(RangeTokens, MaxTokens)}

RangeStrings == SeqsUpTo(RangeChars, MaxLen) \cup TokenStrings

(***************************************************************************)
(* Files and documents.  A page is named by the file it came from and its  *)
(* 0-based index there, and carries its /Rotate value.                     *)
(***************************************************************************)
NoFile == "None"

\* The path the collaborator holds under "current_file", when it holds one.
StoredPaths == {"report.pdf", "notes.docx"}

\* path.lower().endswith(".pdf")
HasPdfSuffix(path) ==
    path \in {"report.pdf", "report_rotated.pdf", "a.pdf", "b.pdf", "c.pdf"}

\* os.path.splitext(os.path.basename(path))[0]
BaseName(path) ==
    CASE path = "report.pdf" -> "report"
      [] path = "report_rotated.pdf" -> "report_rotated"
      [] path = "notes.docx" -> "notes"
      [] path = "a.pdf" -> "a"
      [] path = "b.pdf" -> "b"
      [] path = "c.pdf" -> "c"
      [] OTHER -> path

MkPage(path, k, r) == [src |-> path, idx |-> k, rot |-> r]

\* A readable document of n pages, none rotated.
MkDoc(path, n) ==
    [ok |-> TRUE, pages |-> [k \in 1..n |-> MkPage(path, k - 1, 0)]]

\* A file that cannot be opened or parsed as a PDF.
BadDoc == [ok |-> FALSE, pages |-> <<>>]

\* The name of an output: directory (<<>> for the output directory itself),
\* base name, operation tag and part number (0 when the name has none).
OutName(dir, base, op, n) == [dir |-> dir, base |-> base, op |-> op, n |-> n]

\* What open(name, 'wb') leaves: an empty file, not yet a PDF.
Truncated == [complete |-> FALSE, pages |-> <<>>]

Written(pages) == [complete |-> TRUE, pages |-> pages]

(***************************************************************************)
(* Progress bar and notifications (utils.py).  The bar's value is kept in  *)
(* thousandths, rounded down.                                              *)
(***************************************************************************)
ProgressReset == [visible |-> FALSE, value |-> 0, text |-> ""]

ProgressAt(v, t) == [visible |-> TRUE, value |-> v, text |-> t]

\* 0.1 + 0.8 * (done / of), in thousandths
LoopProgress(done, of) == 100 + (800 * done) \div of

\* 0.5 + 0.4 * (done / of), in thousandths
EditLoopProgress(done, of) == 500 + (400 * done) \div of

NoSnack == [color |-> "none", text |-> ""]

Snack(color, text) == [color |-> color, text |-> text]

(***************************************************************************)
(* State.                                                                  *)
(***************************************************************************)
VARIABLES
    client_storage,   \* the value the page's client storage holds under "current_file"
    disk,             \* the input files: path -> document
    files,            \* the output files written so far: name -> content
    dirs,             \* the output directories created so far
    progress,         \* progress_bar / progress_text
    snack,            \* page.snack_bar, the last notification shown
    current_file,     \* the engine's current_file field
    pc,               \* where the worker thread stands ("idle": none started)
    page_numbers,     \* _extract_pages: page_numbers
    total_pages,      \* the worker's total_pages
    pdf_writer,       \* the pages added to the worker's PdfWriter / PdfMerger
    i,                \* the worker's loop index
    page_range,       \* PDFMerger.page_range.value
    pdf_files,        \* PDFMerger.pdf_files
    split_method,     \* PDFMerger.split_dropdown.value
    pages_per_file,   \* PDFMerger.pages_per_file.value
    edit_dropdown,    \* PDFEditor.edit_dropdown.value
    rotation_str,     \* PDFEditor.rotate_controls.controls[0].value
    pages_option,     \* PDFEditor.rotate_controls.controls[1].value
    rotate_range,     \* PDFEditor.rotate_controls.controls[2].value
    rotate_range_visible, \* PDFEditor.rotate_controls.controls[2].visible
    pages_per,        \* _split_pdf: pages_per_file, the parsed number
    num_files,        \* _split_pdf: num_files
    doc,              \* rotate_pages: the pages of the opened document
    pages_to_rotate,  \* rotate_pages: pages_to_rotate
    rotation,         \* rotate_pages: rotation
    crop_controls,    \* PDFEditor.crop_controls: the values of its fields
    margins,          \* crop_pages: left, right, top, bottom
    pages_to_crop,    \* crop_pages: pages_to_crop
    security_dropdown, \* PDFSecurity.security_dropdown.value
    password_input,   \* PDFSecurity.password_input.value
    confirm_password, \* PDFSecurity.confirm_password.value
    permissions,      \* the checkboxes of PDFSecurity.permissions_container
    pdf_reader,       \* the security worker's PdfReader
    encryption_flags, \* the security worker's encryption_flags
    original_size,    \* _compress_pdf: original_size
    new_size,         \* _compress_pdf: new_size
    reduction_percent, \* _compress_pdf: reduction_percent, as the message shows it
    threads,          \* the worker threads the handlers have started
    insert_controls,  \* PDFEditor: the text, the selected image, the watermark text
    app_current_file, \* PDFOpsApp.current_file: the path of the file picked
    selected_idx,     \* the data of the list item whose selected flag is set (-1: none)
    buttons,          \* the disabled flags of the merge, move and remove buttons
    loop_list,        \* _merge_pdfs: the list object its loop iterates
    clock,            \* the wall clock, in seconds
    worker_password   \* the security worker's local `password`

\* The controls the user sets before triggering an operation.
controls ==
    <<page_range, pdf_files, split_method, pages_per_file, edit_dropdown,
      rotation_str, pages_option, rotate_range, rotate_range_visible>>

split_state == <<pages_per, num_files>>

edit_state == <<doc, pages_to_rotate, rotation>>

crop_vars == <<crop_controls, margins, pages_to_crop>>

security_vars ==
    <<security_dropdown, password_input, confirm_password, permissions,
      pdf_reader, encryption_flags>>

compress_vars == <<original_size, new_size, reduction_percent>>

\* The controls of the insert operations of the editor, and the
\* application's own fields.
late_vars ==
    <<insert_controls, app_current_file, selected_idx, buttons, loop_list,
      clock, worker_password>>

\* What belongs to the crop, security and compress operations and to the
\* thread bookkeeping; merge, split, extract and rotate leave it alone.
other_engines == <<crop_vars, security_vars, compress_vars, threads, late_vars>>

vars ==
    <<client_storage, disk, files, dirs, progress, snack, current_file, pc,
      page_numbers, total_pages, pdf_writer, i, controls, split_state,
      edit_state, other_engines>>

AllDisabled ==
    [merge |-> TRUE, move_up |-> TRUE, move_down |-> TRUE, remove |-> TRUE]

MergeDisabled_Never(list) == FALSE

\* merge.py 268 and 387
MergeDisabled(list) == Len(list) < 2

\* The controls as build_ui leaves them (merge.py 142-159, edit.py 47-53
\* and 203-231), and the workers' locals before any worker has run.
\* (The degree sign of the angle options is left out of their names.)
ExtractDefaults == page_range = <<>>

\* merge.py 24 and 92-119: an empty list, every button of the merge tab
\* disabled
MergeDefaults ==
    /\ pdf_files = <<>>
    /\ selected_idx = -1
    /\ buttons = AllDisabled

SplitDefaults ==
    /\ split_method = "Split by page count"
    /\ pages_per_file = <<"1">>

EditDefaults ==
    /\ edit_dropdown = NoFile
    /\ rotation_str = "90 Clockwise"
    /\ pages_option = "All Pages"
    /\ rotate_range = <<>>
    /\ rotate_range_visible = FALSE

\* edit.py 234-275: every margin field holds "10", all pages are chosen and
\* the range field is hidden.
CropDefaults ==
    crop_controls =
        [left |-> <<"1", "0">>, right |-> <<"1", "0">>, top |-> <<"1", "0">>,
         bottom |-> <<"1", "0">>, pages |-> "All Pages", range |-> <<>>,
         range_visible |-> FALSE]

\* security.py 72-76: the checkboxes as build_ui leaves them
DefaultPermissions ==
    [printing |-> TRUE, copying |-> TRUE, editing |-> FALSE,
     comments |-> TRUE, forms |-> TRUE]

\* security.py 36-83: no operation chosen, empty password fields
SecurityDefaults ==
    /\ security_dropdown = NoFile
    /\ password_input = ""
    /\ confirm_password = ""
    /\ permissions = DefaultPermissions

\* edit.py 42-46, 75 and 128-132: empty text fields, no image selected
InsertDefaults ==
    insert_controls = [text |-> "", selected_image |-> NoFile, watermark_text |-> ""]

\* No PdfReader opened yet.
NoReader == [is_encrypted |-> FALSE, decrypted |-> FALSE, pages |-> <<>>]

NoMargins == [left |-> 0, right |-> 0, top |-> 0, bottom |-> 0]

NoLocals ==
    /\ margins = NoMargins
    /\ pages_to_crop = <<>>
    /\ pdf_reader = NoReader
    /\ encryption_flags = {}
    /\ original_size = 0
    /\ new_size = 0
    /\ reduction_percent = [negative |-> FALSE, tenths |-> 0]
    /\ threads = <<>>
    /\ page_numbers = <<>>
    /\ total_pages = 0
    /\ pdf_writer = <<>>
    /\ i = 0
    /\ pages_per = 0
    /\ num_files = 0
    /\ doc = <<>>
    /\ pages_to_rotate = <<>>
    /\ rotation = 0

\* Nothing written, nothing shown, no worker started.
Fresh ==
    /\ files = << >>
    /\ dirs = {}
    /\ progress = ProgressReset
    /\ snack = NoSnack
    /\ current_file = NoFile
    /\ app_current_file = NoFile
    /\ loop_list = [shared |-> TRUE, list |-> <<>>]
    /\ clock = 0
    /\ worker_password = ""
    /\ pc = "idle"
    /\ NoLocals

Raise_Silent(text) ==
    /\ progress' = ProgressReset
    /\ snack' = snack
    /\ pc' = "done"

\* The except clause every worker ends with: reset_progress, then an error
\* notification.
Raise(text) ==
    /\ progress' = ProgressReset
    /\ snack' = Snack("error", text)
    /\ pc' = "done"

(***************************************************************************)
(* Extract: PDFMerger.start_extract and the worker _extract_pages.         *)
(***************************************************************************)
ParseFailed == [ok |-> FALSE, pages |-> <<>>]

Parsed(pages) == [ok |-> TRUE, pages |-> pages]

\* One pass of the loop body at merge.py 615-620: ValueError (ok = FALSE)
\* when int() fails or the "-" split does not give two values.
ExtractPart(part) ==
    LET p == Strip(part) IN
    IF Contains(p, "-")
    THEN LET pieces == Split(p, "-") IN
         IF Len(pieces) = 2 /\ IsInt(pieces[1]) /\ IsInt(pieces[2])
         THEN Parsed(Range(ToInt(pieces[1]), ToInt(pieces[2]) + 1))
         ELSE ParseFailed
    ELSE IF IsInt(p) THEN Parsed(<<ToInt(p)>>) ELSE ParseFailed

RECURSIVE ExtractParts(_, _)
ExtractParts(parts, acc) ==
    IF parts = <<>> THEN Parsed(acc)
    ELSE LET r == ExtractPart(Head(parts)) IN
         IF r.ok THEN ExtractParts(Tail(parts), acc \o r.pages) ELSE ParseFailed

\* merge.py 612-620: the page numbers in token order, or ValueError.
ExtractParse(value) == ExtractParts(Split(value, ","), <<>>)

\* merge.py 632: [p for p in page_numbers if 1 <= p <= total_pages]
ValidPages(numbers, total) == SelectSeq(numbers, LAMBDA p : 1 <= p /\ p <= total)

\* merge.py 655-660 (the timestamp is not part of this model's names)
ExtractOutput(path) == OutName(<<>>, BaseName(path), "extracted", 0)

StoredPath == client_storage

start_extract ==
    /\ pc = "idle"
    /\ current_file' = StoredPath
    /\ IF StoredPath = NoFile
       THEN /\ snack' = Snack("warning", "Please select a PDF file first")
            /\ UNCHANGED <<pc, progress>>
       ELSE IF ~HasPdfSuffix(StoredPath)
       THEN /\ snack' = Snack("warning", "Please select a PDF file")
            /\ UNCHANGED <<pc, progress>>
       ELSE IF page_range = <<>>
       THEN /\ snack' = Snack("warning", "Please enter a page range")
            /\ UNCHANGED <<pc, progress>>
       ELSE /\ pc' = "extract_parse"
            /\ UNCHANGED <<snack, progress>>
    /\ UNCHANGED <<client_storage, disk, files, dirs, controls, other_engines, split_state,
                   edit_state, page_numbers, total_pages, pdf_writer, i>>

\* merge.py 609-624
extract_parse ==
    /\ pc = "extract_parse"
    /\ LET r == ExtractParse(page_range) IN
       IF r.ok
       THEN /\ page_numbers' = r.pages
            /\ progress' = ProgressAt(100, "Starting page extraction...")
            /\ pc' = "extract_open"
            /\ UNCHANGED snack
       ELSE /\ snack' = Snack("error", "Invalid page range format")
            /\ progress' = ProgressReset
            /\ pc' = "done"
            /\ UNCHANGED page_numbers
    /\ UNCHANGED <<client_storage, disk, files, dirs, current_file, controls, other_engines,
                   split_state, edit_state, total_pages, pdf_writer, i>>

\* A worker that lacks the check at merge.py 634.
NothingToExtract_Unchecked(numbers) == FALSE

\* The check at merge.py 634: the worker goes on only with a non-empty list.
NothingToExtract(numbers) == numbers = <<>>

\* merge.py 626-640
extract_open ==
    /\ pc = "extract_open"
    /\ IF ~disk[current_file].ok
       THEN /\ Raise("Error extracting pages")
            /\ UNCHANGED <<page_numbers, total_pages, pdf_writer, i>>
       ELSE LET total == Len(disk[current_file].pages)
                valid == ValidPages(page_numbers, total) IN
            /\ total_pages' = total
            /\ page_numbers' = valid
            /\ IF NothingToExtract(valid)
               THEN /\ snack' = Snack("warning", "No valid pages in the specified range")
                    /\ progress' = ProgressReset
                    /\ pc' = "done"
                    /\ UNCHANGED <<pdf_writer, i>>
               ELSE /\ pdf_writer' = <<>>
                    /\ i' = 0
                    /\ pc' = "extract_add"
                    /\ UNCHANGED <<snack, progress>>
    /\ UNCHANGED <<client_storage, disk, files, dirs, current_file, controls, other_engines,
                   split_state, edit_state>>

\* merge.py 643-652, one iteration; 663 once the list is exhausted
extract_add ==
    /\ pc = "extract_add"
    /\ IF i < Len(page_numbers)
       THEN /\ progress' = ProgressAt(LoopProgress(i + 1, Len(page_numbers)),
                                      "Extracting page")
            /\ pdf_writer' =
                   Append(pdf_writer, disk[current_file].pages[page_numbers[i + 1]])
            /\ i' = i + 1
            /\ UNCHANGED pc
       ELSE /\ progress' = ProgressAt(900, "Writing extracted pages...")
            /\ pc' = "extract_create"
            /\ UNCHANGED <<pdf_writer, i>>
    /\ UNCHANGED <<client_storage, disk, files, dirs, snack, current_file,
                   controls, other_engines, split_state, edit_state, page_numbers,
                   total_pages>>

\* merge.py 664: open(output_file, 'wb') creates the file, or raises
extract_create ==
    /\ pc = "extract_create"
    /\ \/ /\ files' = (ExtractOutput(current_file) :> Truncated) @@ files
          /\ pc' = "extract_write"
          /\ UNCHANGED <<progress, snack>>
       \/ /\ Raise("Error extracting pages")
          /\ UNCHANGED files
    /\ UNCHANGED <<client_storage, disk, dirs, current_file, controls, other_engines,
                   split_state, edit_state, page_numbers, total_pages,
                   pdf_writer, i>>

\* merge.py 665-667: pdf_writer.write(out_f) completes, or raises half way
extract_write ==
    /\ pc = "extract_write"
    /\ \/ /\ files' = (ExtractOutput(current_file) :> Written(pdf_writer)) @@ files
          /\ progress' = ProgressAt(1000, "Extraction complete!")
          /\ pc' = "extract_finish"
          /\ UNCHANGED snack
       \/ /\ Raise("Error extracting pages")
          /\ UNCHANGED files
    /\ UNCHANGED <<client_storage, disk, dirs, current_file, controls, other_engines,
                   split_state, edit_state, page_numbers, total_pages,
                   pdf_writer, i>>

\* merge.py 670-676
extract_finish ==
    /\ pc = "extract_finish"
    /\ progress' = ProgressReset
    /\ snack' = Snack("success", "Extracted pages")
    /\ pc' = "done"
    /\ UNCHANGED <<client_storage, disk, files, dirs, current_file, controls, other_engines,
                   split_state, edit_state, page_numbers, total_pages,
                   pdf_writer, i>>

\* The input document of the single-file operations.
InputDocs == {BadDoc} \cup {MkDoc("report.pdf", n) : n \in 1..MaxPages}

InitExtract ==
    /\ client_storage \in {NoFile} \cup StoredPaths
    /\ disk \in [{"report.pdf"} -> InputDocs]
    /\ page_range \in RangeStrings
    /\ MergeDefaults
    /\ SplitDefaults
    /\ EditDefaults
    /\ CropDefaults
    /\ SecurityDefaults
    /\ InsertDefaults
    /\ Fresh

NextExtract ==
    \/ start_extract
    \/ extract_parse
    \/ extract_open
    \/ extract_add
    \/ extract_create
    \/ extract_write
    \/ extract_finish

SpecExtract == InitExtract /\ [][NextExtract]_vars

(***************************************************************************)
(* Extract: the claims.                                                    *)
(***************************************************************************)
\* The document Extract works on when it is readable.
InputDoc == disk["report.pdf"]

InputTotal == Len(InputDoc.pages)

\* The page numbers the tokens of the range field name, when it parses.
NamedNumbers ==
    LET r == ExtractParse(page_range) IN {r.pages[k] : k \in 1..Len(r.pages)}

AllInBounds == \A p \in NamedNumbers : 1 <= p /\ p <= InputTotal

\* Some part of value is a token A-B with A > B.
HasReversedToken(value) ==
    \E k \in 1..Len(Split(value, ",")) :
        LET p == Strip(Split(value, ",")[k])
            pieces == Split(p, "-")
        IN /\ Len(pieces) = 2
           /\ IsInt(pieces[1])
           /\ IsInt(pieces[2])
           /\ ToInt(pieces[1]) > ToInt(pieces[2])

ExtractSucceeded == pc = "done" /\ snack.color = "success"

\* C1: a finished Extract whose range names only pages of the document has
\* written exactly the named pages, each once, in ascending page order,
\* whatever the order of the tokens and however they overlap.
C1_ExtractUniqueAscending ==
    (ExtractSucceeded /\ AllInBounds) =>
        LET out == files[ExtractOutput(current_file)].pages IN
        /\ \A j, k \in 1..Len(out) : j < k => out[j].idx < out[k].idx
        /\ {out[k].idx + 1 : k \in 1..Len(out)} = NamedNumbers

\* C2: when a token of the range resolves to a page below 1 or above the
\* page count, Extract fails as a whole: it writes no output and does not
\* report success.
C2_OutOfBoundsFails ==
    (InputDoc.ok /\ ExtractParse(page_range).ok /\ ~AllInBounds) =>
        /\ DOMAIN files = {}
        /\ ~ExtractSucceeded

\* C3: when the range holds a token A-B with A > B, alone or next to valid
\* tokens, Extract writes no output.
C3_ReversedTokenFails ==
    HasReversedToken(page_range) => DOMAIN files = {}

\* The range resolves to no page of the (readable) document: the field is
\* empty, or it parses and none of its numbers is a page.
ResolvedEmpty ==
    /\ InputDoc.ok
    /\ \/ page_range = <<>>
       \/ /\ ExtractParse(page_range).ok
          /\ \A p \in NamedNumbers : ~(1 <= p /\ p <= InputTotal)

\* Extract was triggered and has ended, by a refusal or in its worker.
ExtractEnded == pc = "done" \/ (pc = "idle" /\ snack # NoSnack)

\* C4: when the range resolves to no page, Extract creates no output file
\* at any point, and it ends with a warning and the progress reset.
C4_EmptySelectionFails ==
    ResolvedEmpty =>
        /\ DOMAIN files = {}
        /\ ExtractEnded => (snack.color = "warning" /\ progress = ProgressReset)

\* The worker ran on a range that parses to page numbers none of which is a
\* page of the document, and ended on the check of merge.py 634.
C4_Witness ==
    /\ ResolvedEmpty
    /\ page_range # <<>>
    /\ NamedNumbers # {}
    /\ pc = "done"
    /\ snack = Snack("warning", "No valid pages in the specified range")
    /\ total_pages = InputTotal

(***************************************************************************)
(* Merge: PDFMerger.start_merge and the worker _merge_pdfs.                *)
(***************************************************************************)
MergePaths == {"a.pdf", "b.pdf", "c.pdf"}

\* merge.py 412-415 (the timestamp is not part of this model's names)
MergeOutput == OutName(<<>>, "merged_pdf", "merged", 0)

\* A merger that skips a source it cannot read instead of raising.
AppendFails_Skipped(source) == FALSE

\* merge.py 430-431: open(pdf_file, 'rb') or PdfMerger.append raises
AppendFails(source) == ~source.ok

\* A merger that puts each new source in front of the pages it holds.
MergerAppend_InFront(merged, source) == source.pages \o merged

\* merge.py 431: pdf_merger.append(f) adds the pages of f after those held
MergerAppend(merged, source) == merged \o source.pages

\* merge.py 395-404
start_merge ==
    /\ pc = "idle"
    /\ IF Len(pdf_files) < 2
       THEN /\ snack' =
                   Snack("warning", "Please select at least 2 PDF files to merge")
            /\ UNCHANGED pc
       ELSE /\ pc' = "merge_begin"
            /\ UNCHANGED snack
    /\ UNCHANGED <<client_storage, disk, files, dirs, progress, current_file,
                   page_numbers, total_pages, pdf_writer, i, controls, other_engines,
                   split_state, edit_state>>

\* merge.py 409-418
merge_begin ==
    /\ pc = "merge_begin"
    /\ progress' = ProgressAt(100, "Starting PDF merge...")
    /\ pdf_writer' = <<>>
    /\ i' = 0
    /\ pc' = "merge_add"
    /\ UNCHANGED <<client_storage, disk, files, dirs, snack, current_file,
                   page_numbers, total_pages, controls, other_engines, split_state, edit_state>>

\* merge.py 421: the list object enumerate(self.pdf_files) iterates.  It is
\* the object the pdf_files field names, and so sees what is moved or
\* removed in it, until the field is given a new list.
LoopList == IF loop_list.shared THEN pdf_files ELSE loop_list.list

\* merge.py 421-431, one iteration over the live list; 434 once it is
\* exhausted.  The progress of line 425 divides by len(self.pdf_files),
\* which raises when the field names an empty list by then.
merge_add ==
    /\ pc = "merge_add"
    /\ IF i < Len(LoopList)
       THEN IF Len(pdf_files) = 0 \/ AppendFails(disk[LoopList[i + 1]])
            THEN /\ Raise("Error merging PDFs")
                 /\ UNCHANGED <<pdf_writer, i>>
            ELSE /\ progress' =
                        ProgressAt(100 + (800 * i) \div Len(pdf_files), "Adding file")
                 /\ pdf_writer' = MergerAppend(pdf_writer, disk[LoopList[i + 1]])
                 /\ i' = i + 1
                 /\ UNCHANGED <<pc, snack>>
       ELSE /\ progress' = ProgressAt(900, "Writing merged PDF...")
            /\ pc' = "merge_create"
            /\ UNCHANGED <<pdf_writer, i, snack>>
    /\ UNCHANGED <<client_storage, disk, files, dirs, current_file, page_numbers,
                   total_pages, controls, other_engines, split_state, edit_state>>

\* merge.py 435: open(output_file, 'wb') creates the file, or raises
merge_create ==
    /\ pc = "merge_create"
    /\ \/ /\ files' = (MergeOutput :> Truncated) @@ files
          /\ pc' = "merge_write"
          /\ UNCHANGED <<progress, snack>>
       \/ /\ Raise("Error merging PDFs")
          /\ UNCHANGED files
    /\ UNCHANGED <<client_storage, disk, dirs, current_file, page_numbers,
                   total_pages, pdf_writer, i, controls, other_engines, split_state, edit_state>>

\* merge.py 436-440: pdf_merger.write(f) completes, or raises half way
merge_write ==
    /\ pc = "merge_write"
    /\ \/ /\ files' = (MergeOutput :> Written(pdf_writer)) @@ files
          /\ progress' = ProgressAt(1000, "Merge complete!")
          /\ pc' = "merge_finish"
          /\ UNCHANGED snack
       \/ /\ Raise("Error merging PDFs")
          /\ UNCHANGED files
    /\ UNCHANGED <<client_storage, disk, dirs, current_file, page_numbers,
                   total_pages, pdf_writer, i, controls, other_engines, split_state, edit_state>>

\* merge.py 443-445
merge_finish ==
    /\ pc = "merge_finish"
    /\ progress' = ProgressReset
    /\ snack' = Snack("success", "PDFs successfully merged")
    /\ pc' = "done"
    /\ UNCHANGED <<client_storage, disk, files, dirs, current_file, page_numbers,
                   total_pages, pdf_writer, i, controls, other_engines, split_state, edit_state>>

\* The lists the file picker can hand to on_pdfs_selected (merge.py 266):
\* distinct files, in any order.
FileLists ==
    {fs \in SeqsUpTo(MergePaths, Cardinality(MergePaths)) :
        \A j, k \in 1..Len(fs) : j # k => fs[j] # fs[k]}

\* What the listed paths hold: any of them may be unreadable.
MergeSources ==
    UNION {{[p \in MergePaths |-> IF p \in bad THEN BadDoc ELSE MkDoc(p, n[p])] :
                n \in [MergePaths -> 1..MaxPages]} : bad \in SUBSET MergePaths}

InitMerge ==
    /\ client_storage = NoFile
    /\ disk \in MergeSources
    /\ pdf_files \in FileLists
    \* on_pdfs_selected (merge.py 263-269) has set the merge button
    /\ selected_idx = -1
    /\ buttons = [AllDisabled EXCEPT !.merge = MergeDisabled(pdf_files)]
    /\ ExtractDefaults
    /\ SplitDefaults
    /\ EditDefaults
    /\ CropDefaults
    /\ SecurityDefaults
    /\ InsertDefaults
    /\ Fresh

NextMerge ==
    \/ start_merge
    \/ merge_begin
    \/ merge_add
    \/ merge_create
    \/ merge_write
    \/ merge_finish

SpecMerge == InitMerge /\ [][NextMerge]_vars

(***************************************************************************)
(* Merge: the claims.                                                      *)
(***************************************************************************)
\* The pages of the listed sources, source after source.
RECURSIVE Concatenation(_)
Concatenation(paths) ==
    IF paths = <<>> THEN <<>>
    ELSE disk[Head(paths)].pages \o Concatenation(Tail(paths))

RECURSIVE PageCountSum(_)
PageCountSum(paths) ==
    IF paths = <<>> THEN 0
    ELSE Len(disk[Head(paths)].pages) + PageCountSum(Tail(paths))

AllSourcesOpen == \A k \in 1..Len(pdf_files) : disk[pdf_files[k]].ok

MergeSucceeded == pc = "done" /\ snack.color = "success"

\* C5: a merge of two or more sources that all open ends, unless writing
\* the output raises, with an output whose pages are those of the first
\* source in their order, then those of the second, and so on; its page
\* count is the sum of the sources' page counts.
C5_MergeConcatenates ==
    /\ MergeSucceeded =>
          /\ Len(pdf_files) >= 2
          /\ files[MergeOutput].complete
          /\ files[MergeOutput].pages = Concatenation(pdf_files)
          /\ Len(files[MergeOutput].pages) = PageCountSum(pdf_files)
    /\ (pc = "done" /\ AllSourcesOpen /\ snack.color # "success") =>
          snack = Snack("error", "Error merging PDFs")

\* Three sources have been merged into one output.
C5_Witness ==
    /\ MergeSucceeded
    /\ Len(pdf_files) = 3
    /\ pdf_files[1] = "b.pdf"
    /\ Len(disk["b.pdf"].pages) = 2
    /\ Len(files[MergeOutput].pages) >= 4

\* C6: when one of two or more listed sources cannot be opened or parsed,
\* whatever its position, no output file exists at any point of the merge,
\* and the merge ends with an error and the progress reset.
C6_MergeAllOrNothing ==
    (Len(pdf_files) >= 2 /\ ~AllSourcesOpen) =>
        /\ DOMAIN files = {}
        /\ pc = "done" =>
              (snack = Snack("error", "Error merging PDFs") /\ progress = ProgressReset)

\* The merge failed on its last source, after the earlier ones were appended.
C6_Witness ==
    /\ pc = "done"
    /\ Len(pdf_files) = 3
    /\ disk[pdf_files[1]].ok
    /\ disk[pdf_files[2]].ok
    /\ ~disk[pdf_files[3]].ok
    /\ i = 2
    /\ pdf_writer # <<>>
    /\ snack.color = "error"
    /\ DOMAIN files = {}

(***************************************************************************)
(* Split: PDFMerger.start_split and the worker _split_pdf.                 *)
(***************************************************************************)
SplitMethods ==
    {"Split by page count", "Split into individual pages", "Split by bookmarks"}

\* The characters tried in the "Pages per PDF" field.
CountChars == {"0", "1", "2", "3", "-", " ", "x"}

CountStrings == SeqsUpTo(CountChars, MaxCountLen)

\* merge.py 489-491 (the timestamp is not part of this model's names)
SplitDir(path) == <<BaseName(path), "split">>

\* merge.py 509
PageFile(path, k) == OutName(SplitDir(path), BaseName(path), "page", k)

\* merge.py 552
PartFile(path, k) == OutName(SplitDir(path), BaseName(path), "part", k)

\* merge.py 521-525: int(value) succeeds and gives at least 1
ValidPagesPerFile(value) == IsInt(value) /\ ToInt(value) >= 1

\* A count of the output files that forgets the shorter last chunk.
NumFiles_Floor(total, n) == total \div n

\* merge.py 531
NumFiles(total, n) == (total + n - 1) \div n

Min(a, b) == IF a < b THEN a ELSE b

\* merge.py 545-549: the pages of chunk k (0-based)
ChunkPages(pages, k, n, total) == SubSeq(pages, k * n + 1, Min((k + 1) * n, total))

\* A writer that is not renewed for each page keeps the pages before it.
SinglePage_KeptWriter(pages, k) == SubSeq(pages, 1, k + 1)

\* merge.py 505-506: a new writer holding page k (0-based) alone
SinglePage(pages, k) == <<pages[k + 1]>>

\* merge.py 451-468
start_split ==
    /\ pc = "idle"
    /\ current_file' = StoredPath
    /\ IF StoredPath = NoFile
       THEN /\ snack' = Snack("warning", "Please select a PDF file first")
            /\ UNCHANGED pc
       ELSE IF ~HasPdfSuffix(StoredPath)
       THEN /\ snack' = Snack("warning", "Please select a PDF file")
            /\ UNCHANGED pc
       ELSE /\ pc' = "split_open"
            /\ UNCHANGED snack
    /\ UNCHANGED <<client_storage, disk, files, dirs, progress, page_numbers,
                   total_pages, pdf_writer, i, controls, other_engines, split_state, edit_state>>

\* merge.py 473-486
split_open ==
    /\ pc = "split_open"
    /\ IF ~disk[current_file].ok
       THEN /\ Raise("Error splitting PDF")
            /\ UNCHANGED total_pages
       ELSE /\ total_pages' = Len(disk[current_file].pages)
            /\ IF Len(disk[current_file].pages) < 2
               THEN /\ snack' =
                           Snack("warning", "PDF has only one page, nothing to split")
                    /\ progress' = ProgressReset
                    /\ pc' = "done"
               ELSE /\ progress' = ProgressAt(100, "Starting PDF split...")
                    /\ pc' = "split_mkdir"
                    /\ UNCHANGED snack
    /\ UNCHANGED <<client_storage, disk, files, dirs, current_file, page_numbers,
                   pdf_writer, i, controls, other_engines, split_state, edit_state>>

\* merge.py 488-494, 519-531 and 562-570: the output directory is made, then
\* the method chosen in the dropdown decides
split_mkdir ==
    /\ pc = "split_mkdir"
    /\ \/ /\ dirs' = dirs \cup {SplitDir(current_file)}
          /\ IF split_method = "Split into individual pages"
             THEN /\ i' = 0
                  /\ pc' = "split_page"
                  /\ UNCHANGED <<snack, progress, split_state>>
             ELSE IF split_method = "Split by page count"
             THEN IF ValidPagesPerFile(pages_per_file)
                  THEN /\ pages_per' = ToInt(pages_per_file)
                       /\ num_files' = NumFiles(total_pages, ToInt(pages_per_file))
                       /\ i' = 0
                       /\ pc' = "split_part"
                       /\ UNCHANGED <<snack, progress>>
                  ELSE /\ snack' =
                              Snack("error", "Please enter a valid number of pages per file")
                       /\ progress' = ProgressReset
                       /\ pc' = "done"
                       /\ UNCHANGED <<i, split_state>>
             ELSE /\ snack' =
                         Snack("info",
                               "Splitting by bookmarks requires additional PDF analysis tools")
                  /\ progress' = ProgressReset
                  /\ pc' = "done"
                  /\ UNCHANGED <<i, split_state>>
       \/ /\ Raise("Error splitting PDF")
          /\ UNCHANGED <<dirs, i, split_state>>
    /\ UNCHANGED <<client_storage, disk, files, current_file, page_numbers,
                   total_pages, pdf_writer, controls, other_engines, edit_state>>

\* merge.py 496-510, one iteration up to open(output_file, 'wb'); 513-517 and
\* 572 once every page is written
split_page ==
    /\ pc = "split_page"
    /\ IF i < total_pages
       THEN \/ /\ progress' = ProgressAt(LoopProgress(i + 1, total_pages),
                                         "Extracting page")
               /\ pdf_writer' = SinglePage(disk[current_file].pages, i)
               /\ files' = (PageFile(current_file, i + 1) :> Truncated) @@ files
               /\ pc' = "split_page_write"
               /\ UNCHANGED snack
            \/ /\ Raise("Error splitting PDF")
               /\ UNCHANGED <<pdf_writer, files>>
       ELSE /\ snack' = Snack("success", "Split pages into individual files")
            /\ progress' = ProgressAt(1000, "Split complete!")
            /\ pc' = "split_finish"
            /\ UNCHANGED <<pdf_writer, files>>
    /\ UNCHANGED <<client_storage, disk, dirs, current_file, page_numbers,
                   total_pages, i, controls, other_engines, split_state, edit_state>>

\* merge.py 511: pdf_writer.write(out_f) completes, or raises half way
split_page_write ==
    /\ pc = "split_page_write"
    /\ \/ /\ files' = (PageFile(current_file, i + 1) :> Written(pdf_writer)) @@ files
          /\ i' = i + 1
          /\ pc' = "split_page"
          /\ UNCHANGED <<progress, snack>>
       \/ /\ Raise("Error splitting PDF")
          /\ UNCHANGED <<files, i>>
    /\ UNCHANGED <<client_storage, disk, dirs, current_file, page_numbers,
                   total_pages, pdf_writer, controls, other_engines, split_state, edit_state>>

\* merge.py 533-553, one iteration up to open(output_file, 'wb'); 556-560 and
\* 572 once every chunk is written
split_part ==
    /\ pc = "split_part"
    /\ IF i < num_files
       THEN \/ /\ progress' = ProgressAt(LoopProgress(i + 1, num_files),
                                         "Creating part")
               /\ pdf_writer' =
                      ChunkPages(disk[current_file].pages, i, pages_per, total_pages)
               /\ files' = (PartFile(current_file, i + 1) :> Truncated) @@ files
               /\ pc' = "split_part_write"
               /\ UNCHANGED snack
            \/ /\ Raise("Error splitting PDF")
               /\ UNCHANGED <<pdf_writer, files>>
       ELSE /\ snack' = Snack("success", "Split PDF into files")
            /\ progress' = ProgressAt(1000, "Split complete!")
            /\ pc' = "split_finish"
            /\ UNCHANGED <<pdf_writer, files>>
    /\ UNCHANGED <<client_storage, disk, dirs, current_file, page_numbers,
                   total_pages, i, controls, other_engines, split_state, edit_state>>

\* merge.py 554: pdf_writer.write(out_f) completes, or raises half way
split_part_write ==
    /\ pc = "split_part_write"
    /\ \/ /\ files' = (PartFile(current_file, i + 1) :> Written(pdf_writer)) @@ files
          /\ i' = i + 1
          /\ pc' = "split_part"
          /\ UNCHANGED <<progress, snack>>
       \/ /\ Raise("Error splitting PDF")
          /\ UNCHANGED <<files, i>>
    /\ UNCHANGED <<client_storage, disk, dirs, current_file, page_numbers,
                   total_pages, pdf_writer, controls, other_engines, split_state, edit_state>>

\* merge.py 573-576
split_finish ==
    /\ pc = "split_finish"
    /\ progress' = ProgressReset
    /\ pc' = "done"
    /\ UNCHANGED <<client_storage, disk, files, dirs, snack, current_file,
                   page_numbers, total_pages, pdf_writer, i, controls, other_engines,
                   split_state, edit_state>>

InitSplit ==
    /\ client_storage \in {NoFile} \cup StoredPaths
    /\ disk \in [{"report.pdf"} -> InputDocs]
    /\ split_method \in SplitMethods
    /\ pages_per_file \in CountStrings
    /\ ExtractDefaults
    /\ MergeDefaults
    /\ EditDefaults
    /\ CropDefaults
    /\ SecurityDefaults
    /\ InsertDefaults
    /\ Fresh

NextSplit ==
    \/ start_split
    \/ split_open
    \/ split_mkdir
    \/ split_page
    \/ split_page_write
    \/ split_part
    \/ split_part_write
    \/ split_finish

SpecSplit == InitSplit /\ [][NextSplit]_vars

(***************************************************************************)
(* Split: the claims.                                                      *)
(***************************************************************************)
\* ceil(total / n)
Ceil(total, n) == IF total % n = 0 THEN total \div n ELSE total \div n + 1

\* The pages [lo, hi) of the input document (0-based), in source order.
SourcePages(lo, hi) == [k \in 1..(hi - lo) |-> InputDoc.pages[lo + k]]

\* A split by page count ran to its end on a readable document with a valid
\* "Pages per PDF", and no step of it raised.
ByCountEnded ==
    /\ pc = "done"
    /\ current_file = "report.pdf"
    /\ InputDoc.ok
    /\ split_method = "Split by page count"
    /\ ValidPagesPerFile(pages_per_file)
    /\ snack.color # "error"

\* The outputs are the ceil(total/n) parts, part k+1 holding the pages
\* [k*n, min((k+1)*n, total)), so that each page is in exactly one part.
ByCountOutputs(total, n) ==
    /\ DOMAIN files = {PartFile("report.pdf", k) : k \in 1..Ceil(total, n)}
    /\ \A k \in 0..(Ceil(total, n) - 1) :
          files[PartFile("report.pdf", k + 1)] =
              Written(SourcePages(k * n, Min((k + 1) * n, total)))
    /\ \A p \in 1..total :
          Cardinality({f \in DOMAIN files :
              \E j \in 1..Len(files[f].pages) : files[f].pages[j] = InputDoc.pages[p]}) = 1

\* C7 as claimed: for every document of total >= 1 pages and every n >= 1,
\* Split by page count produces ceil(total/n) outputs, output i holding the
\* pages [i*n, min((i+1)*n, total)).
C7_ByCountFromOnePage ==
    (ByCountEnded /\ InputTotal >= 1) =>
        ByCountOutputs(InputTotal, ToInt(pages_per_file))

\* C7, amended: the same for every document of total >= 2 pages.
C7_ByCount ==
    (ByCountEnded /\ InputTotal >= 2) =>
        /\ snack.color = "success"
        /\ ByCountOutputs(InputTotal, ToInt(pages_per_file))

\* Three pages were split two by two: the last part is the shorter one.
C7_Witness ==
    /\ ByCountEnded
    /\ InputTotal = 3
    /\ ToInt(pages_per_file) = 2
    /\ Len(files[PartFile("report.pdf", 2)].pages) = 1

\* A split into individual pages was started on a readable document.
IndividualStarted ==
    /\ pc \notin {"idle", "split_open"}
    /\ current_file = "report.pdf"
    /\ InputDoc.ok
    /\ split_method = "Split into individual pages"

IndividualEnded == IndividualStarted /\ pc = "done" /\ snack.color # "error"

\* One output per page, the k-th holding page k alone.
IndividualOutputs(total) ==
    /\ DOMAIN files = {PageFile("report.pdf", k) : k \in 1..total}
    /\ \A k \in 1..total :
          files[PageFile("report.pdf", k)] = Written(<<InputDoc.pages[k]>>)

\* C8 as claimed: for every document of total >= 1 pages, Split Individual
\* produces total outputs, the i-th holding page i alone.
C8_IndividualFromOnePage ==
    (IndividualEnded /\ InputTotal >= 1) => IndividualOutputs(InputTotal)

\* C8, amended: for every document of total >= 2 pages Split Individual
\* produces total outputs, the i-th holding page i alone, and it emits them
\* in ascending page order: the outputs present are always those of the
\* first pages.
C8_Individual ==
    /\ (IndividualEnded /\ InputTotal >= 2) =>
          /\ snack.color = "success"
          /\ IndividualOutputs(InputTotal)
    /\ IndividualStarted =>
          \E m \in 0..InputTotal :
              /\ DOMAIN files = {PageFile("report.pdf", k) : k \in 1..m}
              /\ \A k \in 1..m :
                    files[PageFile("report.pdf", k)].complete =>
                        files[PageFile("report.pdf", k)].pages = <<InputDoc.pages[k]>>

\* A document of three pages was split into three files.
C8_Witness ==
    /\ IndividualEnded
    /\ InputTotal = 3
    /\ Cardinality(DOMAIN files) = 3

\* C9: a split by bookmarks does no partial work: it creates no output file
\* and no output directory, and it ends as unsupported with the progress
\* reset.
C9_BookmarkNoPartialWork ==
    split_method = "Split by bookmarks" =>
        /\ dirs = {}
        /\ DOMAIN files = {}
        /\ (pc = "done" /\ snack.color = "info") => progress = ProgressReset

(***************************************************************************)
(* Rotate: PDFEditor.start_editing and the worker rotate_pages.            *)
(***************************************************************************)
AngleOptions == {"90 Clockwise", "90 Counter-Clockwise", "180"}

PageOptions == {"All Pages", "First Page", "Last Page", "Custom Range"}

\* edit.py 641-648
RotationAngle(option) ==
    CASE option = "90 Clockwise" -> 90
      [] option = "90 Counter-Clockwise" -> 0 - 90
      [] option = "180" -> 180
      [] OTHER -> 90

\* One pass of the loop body at edit.py 672-677: 0-based page numbers, or
\* an exception (ok = FALSE).
EditPart(part) ==
    LET p == Strip(part) IN
    IF Contains(p, "-")
    THEN LET pieces == Split(p, "-") IN
         IF Len(pieces) = 2 /\ IsInt(pieces[1]) /\ IsInt(pieces[2])
         THEN Parsed(Range(ToInt(pieces[1]) - 1, ToInt(pieces[2])))
         ELSE ParseFailed
    ELSE IF IsInt(p) THEN Parsed(<<ToInt(p) - 1>>) ELSE ParseFailed

RECURSIVE EditParts(_, _)
EditParts(parts, acc) ==
    IF parts = <<>> THEN Parsed(acc)
    ELSE LET r == EditPart(Head(parts)) IN
         IF r.ok THEN EditParts(Tail(parts), acc \o r.pages) ELSE ParseFailed

\* edit.py 670-681
EditParse(value) == EditParts(Split(value, ","), <<>>)

\* edit.py 661-681: the 0-based pages to work on, in the order of the list
PagesToRotate(option, value, n) ==
    CASE option = "All Pages" -> Parsed(Range(0, n))
      [] option = "First Page" -> Parsed(<<0>>)
      [] option = "Last Page" -> Parsed(<<n - 1>>)
      [] option = "Custom Range" /\ value # <<>> -> EditParse(value)
      [] OTHER -> Parsed(<<>>)

\* A rotation that adds the angle to the rotation the page has.
SetRotation_Added(page, angle) == [page EXCEPT !.rot = (page.rot + angle) % 360]

\* edit.py 689: page.set_rotation(rotation) stores the angle, brought into
\* 0..359, as the page's rotation
SetRotation(page, angle) == [page EXCEPT !.rot = angle % 360]

\* edit.py 651-654 (the timestamp is not part of this model's names)
RotateOutput(path) == OutName(<<>>, BaseName(path), "rotated", 0)

\* edit.py 29-35 and 376: the worker each operation of the dropdown starts
EditEntry(operation) ==
    CASE operation = "Rotate Pages" -> "rotate_open"
      [] operation = "Crop Pages" -> "crop_open"
      [] operation \in {"Add Text", "Add Image", "Add Watermark"} -> "insert_open"
      [] OTHER -> "done"

\* edit.py 356-379
start_editing ==
    /\ pc = "idle"
    /\ IF edit_dropdown = NoFile
       THEN /\ snack' = Snack("warning", "Please select an edit operation")
            /\ UNCHANGED <<pc, current_file>>
       ELSE /\ current_file' = StoredPath
            /\ IF StoredPath = NoFile
               THEN /\ snack' = Snack("warning", "Please select a PDF file first")
                    /\ UNCHANGED pc
               ELSE IF ~HasPdfSuffix(StoredPath)
               THEN /\ snack' = Snack("warning", "Please select a PDF file")
                    /\ UNCHANGED pc
               ELSE /\ pc' = EditEntry(edit_dropdown)
                    /\ UNCHANGED snack
    /\ UNCHANGED <<client_storage, disk, files, dirs, progress, page_numbers,
                   total_pages, pdf_writer, i, controls, other_engines, split_state, edit_state>>

\* edit.py 633-683
rotate_open ==
    /\ pc = "rotate_open"
    /\ IF ~disk[current_file].ok
       THEN /\ Raise("Error rotating pages")
            /\ UNCHANGED <<i, edit_state>>
       ELSE LET n == Len(disk[current_file].pages)
                r == PagesToRotate(pages_option,
                                   IF rotate_range_visible THEN rotate_range ELSE <<>>,
                                   n)
            IN IF r.ok
               THEN /\ rotation' = RotationAngle(rotation_str)
                    /\ doc' = disk[current_file].pages
                    /\ pages_to_rotate' = r.pages
                    /\ i' = 0
                    /\ progress' = ProgressAt(500, "Rotating pages...")
                    /\ pc' = "rotate_page"
                    /\ UNCHANGED snack
               ELSE /\ snack' = Snack("error", "Invalid page range format")
                    /\ progress' = ProgressReset
                    /\ pc' = "done"
                    /\ UNCHANGED <<i, edit_state>>
    /\ UNCHANGED <<client_storage, disk, files, dirs, current_file, page_numbers,
                   total_pages, pdf_writer, controls, other_engines, split_state>>

\* edit.py 686-698, one iteration; 701 once the list is exhausted
rotate_page ==
    /\ pc = "rotate_page"
    /\ IF i < Len(pages_to_rotate)
       THEN LET page_num == pages_to_rotate[i + 1] IN
            /\ IF 0 <= page_num /\ page_num < Len(doc)
               THEN /\ doc' = [doc EXCEPT
                                 ![page_num + 1] = SetRotation(@, rotation)]
                    /\ progress' =
                           ProgressAt(EditLoopProgress(i + 1, Len(pages_to_rotate)),
                                      "Rotating page")
               ELSE UNCHANGED <<doc, progress>>
            /\ i' = i + 1
            /\ UNCHANGED pc
       ELSE /\ progress' = ProgressAt(900, "Saving rotated PDF...")
            /\ pc' = "rotate_save"
            /\ UNCHANGED <<doc, i>>
    /\ UNCHANGED <<client_storage, disk, files, dirs, snack, current_file,
                   page_numbers, total_pages, pdf_writer, controls, other_engines, split_state,
                   pages_to_rotate, rotation>>

\* edit.py 702-705: doc.save(output_file) writes the file, or raises before
\* or while writing it
rotate_save ==
    /\ pc = "rotate_save"
    /\ \/ /\ files' = (RotateOutput(current_file) :> Written(doc)) @@ files
          /\ progress' = ProgressAt(1000, "Page rotation complete!")
          /\ pc' = "rotate_finish"
          /\ UNCHANGED snack
       \/ /\ Raise("Error rotating pages")
          /\ files' = (RotateOutput(current_file) :> Truncated) @@ files
       \/ /\ Raise("Error rotating pages")
          /\ UNCHANGED files
    /\ UNCHANGED <<client_storage, disk, dirs, current_file, page_numbers,
                   total_pages, pdf_writer, i, controls, other_engines, split_state, edit_state>>

\* edit.py 708-710
rotate_finish ==
    /\ pc = "rotate_finish"
    /\ progress' = ProgressReset
    /\ snack' = Snack("success", "Pages successfully rotated")
    /\ pc' = "done"
    /\ UNCHANGED <<client_storage, disk, files, dirs, current_file, page_numbers,
                   total_pages, pdf_writer, i, controls, other_engines, split_state, edit_state>>

\* The user selects the rotated output as the next input: the collaborator
\* now holds its path, and the path holds what was written.
select_rotated_output ==
    /\ pc = "done"
    /\ snack.color = "success"
    /\ current_file = "report.pdf"
    /\ client_storage' = "report_rotated.pdf"
    /\ disk' = ("report_rotated.pdf" :>
                   [ok |-> TRUE, pages |-> files[RotateOutput("report.pdf")].pages])
               @@ disk
    /\ pc' = "idle"
    /\ UNCHANGED <<files, dirs, progress, snack, current_file, page_numbers,
                   total_pages, pdf_writer, i, controls, other_engines, split_state, edit_state>>

Rotations == {0, 90, 180, 270}

\* The documents given to an edit: unreadable, or up to MaxEditPages pages
\* of any rotation.
EditDocs ==
    {BadDoc} \cup
    UNION {{[ok |-> TRUE,
             pages |-> [k \in 1..n |-> MkPage("report.pdf", k - 1, rots[k])]] :
                rots \in [1..n -> Rotations]} : n \in 1..MaxEditPages}

\* The range strings tried in an edit: "", and one or two tokens, well
\* formed or not.
EditDigits == {"0", "1", "2", "3"}

EditTokens ==
    {<<d>> : d \in EditDigits}
        \cup {<<a, "-", b>> : a \in EditDigits, b \in EditDigits}
        \cup {<<"x">>, <<" ">>, <<"1", "-">>, <<"-", "1">>, <<" ", "2", " ">>,
              <<"1", " ", "-", " ", "2">>, <<"1", "-", "2", "-", "3">>}

EditRangeStrings ==
    {<<>>} \cup EditTokens \cup {t1 \o <<",">> \o t2 : t1 \in EditTokens, t2 \in EditTokens}

InitRotate ==
    /\ client_storage \in {NoFile} \cup StoredPaths
    /\ disk \in [{"report.pdf"} -> EditDocs]
    /\ edit_dropdown \in {NoFile, "Rotate Pages"}
    /\ rotation_str \in AngleOptions
    /\ pages_option \in PageOptions
    \* on_rotate_pages_change (edit.py 309-312) shows the range field for
    \* "Custom Range" only
    /\ rotate_range_visible = (pages_option = "Custom Range")
    /\ rotate_range \in IF rotate_range_visible THEN EditRangeStrings ELSE {<<>>}
    /\ ExtractDefaults
    /\ MergeDefaults
    /\ SplitDefaults
    /\ CropDefaults
    /\ SecurityDefaults
    /\ InsertDefaults
    /\ Fresh

NextRotate ==
    \/ start_editing
    \/ rotate_open
    \/ rotate_page
    \/ rotate_save
    \/ rotate_finish
    \/ select_rotated_output

SpecRotate == InitRotate /\ [][NextRotate]_vars

(***************************************************************************)
(* Rotate: the claims.                                                     *)
(***************************************************************************)
\* The pages Rotate targets, 0-based: those the page set names that are
\* pages of a document of n pages.
TargetedPages(n) ==
    LET r == PagesToRotate(pages_option,
                           IF rotate_range_visible THEN rotate_range ELSE <<>>, n)
    IN {r.pages[k] : k \in 1..Len(r.pages)} \cap 0..(n - 1)

\* The angle chosen, as a page rotation.
ChosenRotation ==
    CASE rotation_str = "90 Clockwise" -> 90
      [] rotation_str = "90 Counter-Clockwise" -> 270
      [] rotation_str = "180" -> 180

\* What the rotation of input pages `before` must give: the chosen rotation
\* on the targeted pages, whatever rotation they had, and every other page
\* as it was.
RotatedFrom(before, after) ==
    /\ Len(after) = Len(before)
    /\ \A k \in 1..Len(before) :
          after[k] = IF (k - 1) \in TargetedPages(Len(before))
                     THEN [before[k] EXCEPT !.rot = ChosenRotation]
                     ELSE before[k]

FirstRotation == RotateOutput("report.pdf")

SecondRotation == RotateOutput("report_rotated.pdf")

\* C10: Rotate sets the rotation of every targeted page to the chosen angle,
\* whatever rotation the page had, and leaves the other pages as they were;
\* rotating the output again with the same settings gives the same pages.
C10_RotateAbsolute ==
    /\ (FirstRotation \in DOMAIN files /\ files[FirstRotation].complete) =>
          RotatedFrom(InputDoc.pages, files[FirstRotation].pages)
    /\ (SecondRotation \in DOMAIN files /\ files[SecondRotation].complete) =>
          files[SecondRotation].pages = files[FirstRotation].pages

\* The first page of a document whose two pages were both rotated before
\* has been rotated, and the output rotated again.
C10_Witness ==
    /\ pc = "done"
    /\ snack.color = "success"
    /\ current_file = "report_rotated.pdf"
    /\ pages_option = "First Page"
    /\ rotation_str = "90 Counter-Clockwise"
    /\ Len(InputDoc.pages) = 2
    /\ InputDoc.pages[1].rot = 90
    /\ InputDoc.pages[2].rot = 180
    /\ files[SecondRotation].complete
    /\ files[SecondRotation].pages[1].rot = 270
    /\ files[SecondRotation].pages[2].rot = 180

(***************************************************************************)
(* Crop: PDFEditor.crop_pages.  Lengths are in hundredths of the page's    *)
(* width and height, so a margin of v percent is the integer v.            *)
(***************************************************************************)
\* The values tried in a margin field.
MarginStrings == {<<"0">>, <<"5", "0">>, <<"6", "0">>, <<"x">>}

\* The values tried in the crop range field when it is shown.
CropRangeStrings ==
    {<<>>, <<"1">>, <<"2">>, <<"3">>, <<"1", "-", "2">>, <<"x">>,
     <<"1", ",", "1">>, <<"1", "-", "2", ",", "2">>}

\* float(value): the model's margin fields hold integer literals or text
\* that is no number (ValueError, ok = FALSE).
ToFloat(value) ==
    IF IsInt(Strip(value)) THEN [ok |-> TRUE, value |-> ToInt(Strip(value))]
    ELSE [ok |-> FALSE, value |-> 0]

\* edit.py 722-725, in percent
CropMargins(c) ==
    LET l == ToFloat(c.left)
        r == ToFloat(c.right)
        t == ToFloat(c.top)
        b == ToFloat(c.bottom)
    IN [ok |-> l.ok /\ r.ok /\ t.ok /\ b.ok,
        left |-> l.value, right |-> r.value, top |-> t.value, bottom |-> b.value]

Rect(x0, y0, x1, y1) == [x0 |-> x0, y0 |-> y0, x1 |-> x1, y1 |-> y1]

\* A page as fitz.open gives it: its box is the whole page.
CropPage(path, k) ==
    [src |-> path, idx |-> k, rot |-> 0, box |-> Rect(0, 0, 100, 100)]

\* edit.py 769: page.rect.  For a page whose cropbox was never set it is
\* the whole page; once set_cropbox has been called it is the cropbox, as
\* it lies in the page or moved to the origin, by the library's version.
PageRect(page) ==
    {page.box,
     Rect(0, 0, page.box.x1 - page.box.x0, page.box.y1 - page.box.y0)}

\* edit.py 772-777
CropRect(rect, m) ==
    LET width == rect.x1 - rect.x0
        height == rect.y1 - rect.y0
    IN Rect(rect.x0 + (width * m.left) \div 100,
            rect.y0 + (height * m.top) \div 100,
            rect.x1 - (width * m.right) \div 100,
            rect.y1 - (height * m.bottom) \div 100)

\* edit.py 780: page.set_cropbox raises ValueError for a rectangle that is
\* empty or not inside the page.
CropboxRefused(page, rect) ==
    \/ rect.x0 >= rect.x1
    \/ rect.y0 >= rect.y1
    \/ rect.x0 < 0
    \/ rect.y0 < 0
    \/ rect.x1 > 100
    \/ rect.y1 > 100

\* edit.py 741-761, the same selection as rotate_pages makes
PagesToCrop(option, value, n) == PagesToRotate(option, value, n)

\* edit.py 731-734
CropOutput(path) == OutName(<<>>, BaseName(path), "cropped", 0)

\* edit.py 719-763
crop_open ==
    /\ pc = "crop_open"
    /\ LET m == CropMargins(crop_controls) IN
       IF ~m.ok \/ ~disk[current_file].ok
       THEN /\ Raise("Error cropping pages")
            /\ UNCHANGED <<i, doc, margins, pages_to_crop>>
       ELSE LET n == Len(disk[current_file].pages)
                r == PagesToCrop(crop_controls.pages,
                                 IF crop_controls.range_visible
                                 THEN crop_controls.range ELSE <<>>,
                                 n)
            IN IF r.ok
               THEN /\ margins' = [left |-> m.left, right |-> m.right,
                                   top |-> m.top, bottom |-> m.bottom]
                    /\ doc' = disk[current_file].pages
                    /\ pages_to_crop' = r.pages
                    /\ i' = 0
                    /\ progress' = ProgressAt(500, "Cropping pages...")
                    /\ pc' = "crop_page"
                    /\ UNCHANGED snack
               ELSE /\ snack' = Snack("error", "Invalid page range format")
                    /\ progress' = ProgressReset
                    /\ pc' = "done"
                    /\ UNCHANGED <<i, doc, margins, pages_to_crop>>
    /\ UNCHANGED <<client_storage, disk, files, dirs, current_file, page_numbers,
                   total_pages, pdf_writer, controls, split_state,
                   pages_to_rotate, rotation, crop_controls, security_vars,
                   compress_vars, threads, late_vars>>

\* edit.py 766-789, one iteration; 792 once the list is exhausted
crop_page ==
    /\ pc = "crop_page"
    /\ IF i < Len(pages_to_crop)
       THEN LET page_num == pages_to_crop[i + 1] IN
            IF 0 <= page_num /\ page_num < Len(doc)
            THEN \E rect \in PageRect(doc[page_num + 1]) :
                 LET crop_rect == CropRect(rect, margins) IN
                 IF CropboxRefused(doc[page_num + 1], crop_rect)
                 THEN /\ Raise("Error cropping pages")
                      /\ UNCHANGED <<doc, i>>
                 ELSE /\ doc' = [doc EXCEPT ![page_num + 1].box = crop_rect]
                      /\ progress' =
                             ProgressAt(EditLoopProgress(i + 1, Len(pages_to_crop)),
                                        "Cropping page")
                      /\ i' = i + 1
                      /\ UNCHANGED <<pc, snack>>
            ELSE /\ i' = i + 1
                 /\ UNCHANGED <<doc, progress, pc, snack>>
       ELSE /\ progress' = ProgressAt(900, "Saving cropped PDF...")
            /\ pc' = "crop_save"
            /\ UNCHANGED <<doc, i, snack>>
    /\ UNCHANGED <<client_storage, disk, files, dirs, current_file, page_numbers,
                   total_pages, pdf_writer, controls, split_state,
                   pages_to_rotate, rotation, crop_controls, margins,
                   pages_to_crop, security_vars, compress_vars, threads,
                   late_vars>>

\* edit.py 793-796: doc.save(output_file) writes the file, or raises before
\* or while writing it
crop_save ==
    /\ pc = "crop_save"
    /\ \/ /\ files' = (CropOutput(current_file) :> Written(doc)) @@ files
          /\ progress' = ProgressAt(1000, "Page cropping complete!")
          /\ pc' = "crop_finish"
          /\ UNCHANGED snack
       \/ /\ Raise("Error cropping pages")
          /\ files' = (CropOutput(current_file) :> Truncated) @@ files
       \/ /\ Raise("Error cropping pages")
          /\ UNCHANGED files
    /\ UNCHANGED <<client_storage, disk, dirs, current_file, page_numbers,
                   total_pages, pdf_writer, i, controls, other_engines,
                   split_state, edit_state>>

\* edit.py 799-801
crop_finish ==
    /\ pc = "crop_finish"
    /\ progress' = ProgressReset
    /\ snack' = Snack("success", "Pages successfully cropped")
    /\ pc' = "done"
    /\ UNCHANGED <<client_storage, disk, files, dirs, current_file, page_numbers,
                   total_pages, pdf_writer, i, controls, other_engines,
                   split_state, edit_state>>

\* What fitz.open can find under the selected path.
CropDocs ==
    {[ok |-> TRUE, pages |-> [k \in 1..n |-> CropPage("report.pdf", k - 1)]] :
         n \in 1..MaxEditPages}
        \cup {BadDoc}

InitCrop ==
    /\ client_storage \in {NoFile} \cup StoredPaths
    /\ disk \in [{"report.pdf"} -> CropDocs]
    /\ edit_dropdown \in {NoFile, "Crop Pages"}
    /\ \E l \in MarginStrings, r \in MarginStrings, t \in MarginStrings,
          b \in MarginStrings, o \in PageOptions :
          \* on_crop_pages_change (edit.py 315-318) shows the range field for
          \* "Custom Range" only
          \E v \in IF o = "Custom Range" THEN CropRangeStrings ELSE {<<>>} :
              crop_controls =
                  [left |-> l, right |-> r, top |-> t, bottom |-> b,
                   pages |-> o, range |-> v,
                   range_visible |-> (o = "Custom Range")]
    /\ rotation_str = "90 Clockwise"
    /\ pages_option = "All Pages"
    /\ rotate_range = <<>>
    /\ rotate_range_visible = FALSE
    /\ ExtractDefaults
    /\ MergeDefaults
    /\ SplitDefaults
    /\ SecurityDefaults
    /\ InsertDefaults
    /\ Fresh

NextCrop ==
    \/ start_editing
    \/ crop_open
    \/ crop_page
    \/ crop_save
    \/ crop_finish

SpecCrop == InitCrop /\ [][NextCrop]_vars

(***************************************************************************)
(* Crop: the claim.                                                        *)
(***************************************************************************)
\* The margin fields hold numbers with left+right >= 1 or top+bottom >= 1
\* (100 percent).
InvalidMargins ==
    LET m == CropMargins(crop_controls) IN
    /\ m.ok
    /\ \/ m.left + m.right >= 100
       \/ m.top + m.bottom >= 100

\* C11: with margins where left+right >= 1 or top+bottom >= 1, Crop writes
\* no output file and does not end in success.
C11_InvalidMarginsFail ==
    InvalidMargins =>
        /\ DOMAIN files = {}
        /\ ~(pc = "done" /\ snack.color = "success")

(***************************************************************************)
(* Security: PDFSecurity.start_security_operation and the workers          *)
(* encrypt_pdf, decrypt_pdf, add_permission_password and remove_password.  *)
(***************************************************************************)
SecurityOperations ==
    {"Encrypt PDF", "Decrypt PDF", "Add Permission Password", "Remove Password"}

\* The values tried in the password fields.
Passwords == {"", "u", "o", "x"}

NoPermissions ==
    [printing |-> FALSE, copying |-> FALSE, editing |-> FALSE,
     comments |-> FALSE, forms |-> FALSE]

\* The checkbox settings tried.
PermissionChoices ==
    {NoPermissions, DefaultPermissions,
     [printing |-> TRUE, copying |-> TRUE, editing |-> TRUE,
      comments |-> TRUE, forms |-> TRUE]}

\* A readable, unprotected document of n pages.
PlainDoc(n) ==
    [ok |-> TRUE, pages |-> MkDoc("report.pdf", n).pages, encrypted |-> FALSE,
     user_pwd |-> "", owner_pwd |-> "", supported |-> TRUE]

\* A readable document of n pages with an encryption dictionary; supported
\* tells whether the library can run its algorithm.
EncryptedDoc(n, user, owner, supported) ==
    [ok |-> TRUE, pages |-> MkDoc("report.pdf", n).pages, encrypted |-> TRUE,
     user_pwd |-> user, owner_pwd |-> owner, supported |-> supported]

UnreadableDoc ==
    [ok |-> FALSE, pages |-> <<>>, encrypted |-> FALSE, user_pwd |-> "",
     owner_pwd |-> "", supported |-> TRUE]

\* PyPDF2.PdfReader(f): the constructor tries the empty password on an
\* encrypted document, so one whose user password is empty is open at once.
Reader(d) ==
    [is_encrypted |-> d.encrypted,
     decrypted |-> d.encrypted /\ d.supported /\ d.user_pwd = "",
     pages |-> d.pages]

\* pdf_reader.decrypt(password): 2 for the owner password, 1 for the user
\* password, 0 when the password matches neither.  It returns; it does not
\* raise on a mismatch.
DecryptResult(d, password) ==
    IF password = d.owner_pwd THEN 2
    ELSE IF password = d.user_pwd THEN 1
    ELSE 0

\* The reader after decrypt(password) returned rc: a match opens it, a
\* mismatch leaves it as it was.
AfterDecrypt(reader, rc) == [reader EXCEPT !.decrypted = @ \/ rc # 0]

\* pdf_reader.pages raises on an encrypted document that is not decrypted.
PagesReadable(reader) == ~reader.is_encrypted \/ reader.decrypted

\* security.py 245-255
EncryptionFlags(p) ==
    (IF p.printing THEN {"PRINT"} ELSE {})
        \cup (IF p.copying THEN {"EXTRACT"} ELSE {})
        \cup (IF p.editing THEN {"MODIFY"} ELSE {})
        \cup (IF p.comments THEN {"ANNOTATE"} ELSE {})
        \cup (IF p.forms THEN {"FILL_FORM"} ELSE {})

\* What pdf_writer.write leaves after pdf_writer.encrypt(user, owner, ...).
Protected(pages, user, owner, flags) ==
    [complete |-> TRUE, pages |-> pages, encrypted |-> TRUE,
     user_pwd |-> user, owner_pwd |-> owner, flags |-> flags]

\* An Add Permission Password that protects with the password as the user
\* password too.
PermissionUserPassword_Same(password) == password

\* security.py 389: the user password add_permission_password passes
PermissionUserPassword(password) == ""

\* security.py 258: the user password encrypt_pdf passes
EncryptUserPassword(password) == password

\* generate_output_filename(self.current_file, <tag>, ".pdf")
SecurityOutput(path, tag) == OutName(<<>>, BaseName(path), tag, 0)

\* security.py 26-31 and 197: the worker each operation starts
SecurityEntry(operation) ==
    CASE operation = "Encrypt PDF" -> "encrypt_read"
      [] operation = "Decrypt PDF" -> "decrypt_read"
      [] operation = "Add Permission Password" -> "permission_read"
      [] operation = "Remove Password" -> "remove_read"
      [] OTHER -> "done"

\* A handler that never looks at the confirmation.
ConfirmationDiffers_Ignored(password, confirmation) == FALSE

\* security.py 186
ConfirmationDiffers(password, confirmation) == password # confirmation

\* security.py 161-200
start_security_operation ==
    /\ pc = "idle"
    /\ IF security_dropdown = NoFile
       THEN /\ snack' = Snack("warning", "Please select a security operation")
            /\ UNCHANGED <<pc, current_file>>
       ELSE /\ current_file' = StoredPath
            /\ IF StoredPath = NoFile
               THEN /\ snack' = Snack("warning", "Please select a PDF file first")
                    /\ UNCHANGED pc
               ELSE IF ~HasPdfSuffix(StoredPath)
               THEN /\ snack' = Snack("warning", "Please select a PDF file")
                    /\ UNCHANGED pc
               ELSE IF /\ security_dropdown \in {"Encrypt PDF", "Add Permission Password"}
                       /\ password_input = ""
               THEN /\ snack' = Snack("warning", "Please enter a password")
                    /\ UNCHANGED pc
               ELSE IF /\ security_dropdown \in {"Encrypt PDF", "Add Permission Password"}
                       /\ ConfirmationDiffers(password_input, confirm_password)
               THEN /\ snack' = Snack("error", "Passwords do not match")
                    /\ UNCHANGED pc
               ELSE IF /\ security_dropdown \in {"Decrypt PDF", "Remove Password"}
                       /\ password_input = ""
               THEN /\ snack' = Snack("warning", "Please enter the current password")
                    /\ UNCHANGED pc
               ELSE /\ pc' = SecurityEntry(security_dropdown)
                    /\ UNCHANGED snack
    /\ UNCHANGED <<client_storage, disk, files, dirs, progress, page_numbers,
                   total_pages, pdf_writer, i, controls, split_state, edit_state,
                   other_engines>>

\* What a step of a security worker leaves alone besides its own locals.
security_frame ==
    <<client_storage, disk, dirs, current_file, page_numbers, total_pages, i,
      controls, split_state, edit_state, crop_vars, security_dropdown,
      password_input, confirm_password, permissions, compress_vars, threads,
      insert_controls, app_current_file, selected_idx, buttons, loop_list,
      clock>>

\* A worker that goes on whatever the protection of the source is.
ProtectionConflict_Unchecked(is_encrypted, needs_encrypted) == FALSE

\* security.py 230, 296, 361 and 427: the test on pdf_reader.is_encrypted
ProtectionConflict(is_encrypted, needs_encrypted) ==
    is_encrypted # needs_encrypted

\* The opening of every security worker (security.py 205-233, 279-299,
\* 336-364, 410-430): read the password field, open the file, and stop with a warning when its
\* protection is not what the operation needs.
SecurityRead(here, next, needs_encrypted, conflict, error) ==
    /\ pc = here
    /\ IF ~disk[current_file].ok
       THEN /\ Raise(error)
            /\ UNCHANGED pdf_reader
       ELSE /\ pdf_reader' = Reader(disk[current_file])
            /\ IF ProtectionConflict(pdf_reader'.is_encrypted, needs_encrypted)
               THEN /\ snack' = Snack("warning", conflict)
                    /\ progress' = ProgressReset
                    /\ pc' = "done"
               ELSE /\ progress' = ProgressAt(300, "Reading PDF...")
                    /\ pc' = next
                    /\ UNCHANGED snack
    /\ UNCHANGED <<files, pdf_writer, encryption_flags>>
    /\ worker_password' = password_input
    /\ UNCHANGED security_frame

\* security.py 236-258 and 367-389: copy the pages, compute the flags (the
\* lookup of a flag's name in the library may raise) and set the passwords.
SecurityProtect(here, next, error) ==
    /\ pc = here
    /\ \/ /\ PagesReadable(pdf_reader)
          /\ pdf_writer' = pdf_reader.pages
          /\ encryption_flags' = EncryptionFlags(permissions)
          /\ progress' = ProgressAt(900, "Writing PDF...")
          /\ pc' = next
          /\ UNCHANGED snack
       \/ /\ PagesReadable(pdf_reader)
          /\ EncryptionFlags(permissions) # {}
          /\ Raise(error)
          /\ pdf_writer' = pdf_reader.pages
          /\ UNCHANGED encryption_flags
       \/ /\ ~PagesReadable(pdf_reader)
          /\ Raise(error)
          /\ UNCHANGED <<pdf_writer, encryption_flags>>
    /\ UNCHANGED <<files, pdf_reader>>
    /\ UNCHANGED <<worker_password, security_frame>>

\* open(output_file, 'wb'): the file is created empty, or the open raises.
SecurityCreate(here, next, tag, error) ==
    /\ pc = here
    /\ \/ /\ files' = (SecurityOutput(current_file, tag) :> Truncated) @@ files
          /\ pc' = next
          /\ UNCHANGED <<progress, snack>>
       \/ /\ Raise(error)
          /\ UNCHANGED files
    /\ UNCHANGED <<pdf_reader, pdf_writer, encryption_flags>>
    /\ UNCHANGED <<worker_password, security_frame>>

\* pdf_writer.write(out_f): the content is written, or the write raises
\* and the file stays as it is.
SecurityWrite(here, next, tag, content, error) ==
    /\ pc = here
    /\ \/ /\ files' = [files EXCEPT ![SecurityOutput(current_file, tag)] = content]
          /\ progress' = ProgressAt(1000, "complete!")
          /\ pc' = next
          /\ UNCHANGED snack
       \/ /\ Raise(error)
          /\ UNCHANGED files
    /\ UNCHANGED <<pdf_reader, pdf_writer, encryption_flags>>
    /\ UNCHANGED <<worker_password, security_frame>>

SecurityFinish(here, message) ==
    /\ pc = here
    /\ progress' = ProgressReset
    /\ snack' = Snack("success", message)
    /\ pc' = "done"
    /\ UNCHANGED <<files, pdf_reader, pdf_writer, encryption_flags>>
    /\ UNCHANGED <<worker_password, security_frame>>

\* security.py 301-307 and 432-438: decrypt is called and only an exception
\* counts as a wrong password; what it returns is dropped.
SecurityAuthenticate(here, next) ==
    /\ pc = here
    /\ IF ~disk[current_file].supported
       THEN /\ snack' = Snack("error", "Incorrect password")
            /\ progress' = ProgressReset
            /\ pc' = "done"
            /\ UNCHANGED pdf_reader
       ELSE /\ pdf_reader' =
                   AfterDecrypt(pdf_reader,
                                DecryptResult(disk[current_file], worker_password))
            /\ pc' = next
            /\ UNCHANGED <<progress, snack>>
    /\ UNCHANGED <<files, pdf_writer, encryption_flags>>
    /\ UNCHANGED <<worker_password, security_frame>>

\* security.py 310-318 and 441-449: the loop over pdf_reader.pages
SecurityCopy(here, next, error) ==
    /\ pc = here
    /\ IF PagesReadable(pdf_reader)
       THEN /\ pdf_writer' = pdf_reader.pages
            /\ progress' = ProgressAt(900, "Writing PDF...")
            /\ pc' = next
            /\ UNCHANGED snack
       ELSE /\ Raise(error)
            /\ UNCHANGED pdf_writer
    /\ UNCHANGED <<files, pdf_reader, encryption_flags>>
    /\ UNCHANGED <<worker_password, security_frame>>

\* encrypt_pdf, security.py 202-274
encrypt_read ==
    SecurityRead("encrypt_read", "encrypt_protect", FALSE,
                 "PDF is already encrypted", "Error encrypting PDF")

encrypt_protect ==
    SecurityProtect("encrypt_protect", "encrypt_create", "Error encrypting PDF")

encrypt_create ==
    SecurityCreate("encrypt_create", "encrypt_write", "encrypted",
                   "Error encrypting PDF")

encrypt_write ==
    SecurityWrite("encrypt_write", "encrypt_finish", "encrypted",
                  Protected(pdf_writer, EncryptUserPassword(worker_password),
                            worker_password, encryption_flags),
                  "Error encrypting PDF")

encrypt_finish == SecurityFinish("encrypt_finish", "PDF successfully encrypted")

\* add_permission_password, security.py 333-405
permission_read ==
    SecurityRead("permission_read", "permission_protect", FALSE,
                 "PDF is already encrypted", "Error adding permission password")

permission_protect ==
    SecurityProtect("permission_protect", "permission_create",
                    "Error adding permission password")

permission_create ==
    SecurityCreate("permission_create", "permission_write", "permission_added",
                   "Error adding permission password")

permission_write ==
    SecurityWrite("permission_write", "permission_finish", "permission_added",
                  Protected(pdf_writer, PermissionUserPassword(worker_password),
                            worker_password, encryption_flags),
                  "Error adding permission password")

permission_finish ==
    SecurityFinish("permission_finish", "Permission password successfully added")

\* decrypt_pdf, security.py 276-331
decrypt_read ==
    SecurityRead("decrypt_read", "decrypt_authenticate", TRUE,
                 "PDF is not encrypted", "Error decrypting PDF")

decrypt_authenticate == SecurityAuthenticate("decrypt_authenticate", "decrypt_copy")

decrypt_copy == SecurityCopy("decrypt_copy", "decrypt_create", "Error decrypting PDF")

decrypt_create ==
    SecurityCreate("decrypt_create", "decrypt_write", "decrypted",
                   "Error decrypting PDF")

decrypt_write ==
    SecurityWrite("decrypt_write", "decrypt_finish", "decrypted",
                  Written(pdf_writer), "Error decrypting PDF")

decrypt_finish == SecurityFinish("decrypt_finish", "PDF successfully decrypted")

\* remove_password, security.py 407-462
remove_read ==
    SecurityRead("remove_read", "remove_authenticate", TRUE,
                 "PDF is not encrypted", "Error removing password")

remove_authenticate == SecurityAuthenticate("remove_authenticate", "remove_copy")

remove_copy == SecurityCopy("remove_copy", "remove_create", "Error removing password")

remove_create ==
    SecurityCreate("remove_create", "remove_write", "password_removed",
                   "Error removing password")

remove_write ==
    SecurityWrite("remove_write", "remove_finish", "password_removed",
                  Written(pdf_writer), "Error removing password")

remove_finish == SecurityFinish("remove_finish", "Password successfully removed")

\* What can lie under the selected path: unprotected, protected by a user
\* and an owner password, protected by an owner password only, or no PDF.
SecurityDocs ==
    {PlainDoc(n) : n \in 1..MaxEditPages}
        \cup {EncryptedDoc(n, "u", "o", s) : n \in 1..MaxEditPages, s \in BOOLEAN}
        \cup {EncryptedDoc(n, "", "o", TRUE) : n \in 1..MaxEditPages}
        \cup {UnreadableDoc}

InitSecurity ==
    /\ client_storage \in {NoFile} \cup StoredPaths
    /\ disk \in [{"report.pdf"} -> SecurityDocs]
    /\ security_dropdown \in {NoFile} \cup SecurityOperations
    /\ password_input \in Passwords
    /\ confirm_password \in Passwords
    /\ permissions \in PermissionChoices
    /\ ExtractDefaults
    /\ MergeDefaults
    /\ SplitDefaults
    /\ EditDefaults
    /\ CropDefaults
    /\ InsertDefaults
    /\ Fresh

NextSecurity ==
    \/ start_security_operation
    \/ encrypt_read
    \/ encrypt_protect
    \/ encrypt_create
    \/ encrypt_write
    \/ encrypt_finish
    \/ permission_read
    \/ permission_protect
    \/ permission_create
    \/ permission_write
    \/ permission_finish
    \/ decrypt_read
    \/ decrypt_authenticate
    \/ decrypt_copy
    \/ decrypt_create
    \/ decrypt_write
    \/ decrypt_finish
    \/ remove_read
    \/ remove_authenticate
    \/ remove_copy
    \/ remove_create
    \/ remove_write
    \/ remove_finish

SpecSecurity == InitSecurity /\ [][NextSecurity]_vars

(***************************************************************************)
(* Security: the claims.                                                   *)
(***************************************************************************)
\* The document the security operation works on.
SecuredDoc == disk["report.pdf"]

EncryptingOperations == {"Encrypt PDF", "Add Permission Password"}

DecryptingOperations == {"Decrypt PDF", "Remove Password"}

\* The operation chosen needs the other protection state than the source
\* has.
StateConflict ==
    /\ SecuredDoc.ok
    /\ \/ security_dropdown \in EncryptingOperations /\ SecuredDoc.encrypted
       \/ security_dropdown \in DecryptingOperations /\ ~SecuredDoc.encrypted

ConflictWarning ==
    IF security_dropdown \in EncryptingOperations
    THEN Snack("warning", "PDF is already encrypted")
    ELSE Snack("warning", "PDF is not encrypted")

\* C12: a security operation on a source in the wrong protection state
\* copies no page and writes no output, and its worker ends with the
\* "already encrypted" / "not encrypted" warning and the progress reset.
C12_StateConflictFails ==
    StateConflict =>
        /\ DOMAIN files = {}
        /\ pdf_writer = <<>>
        /\ pc = "done" => (snack = ConflictWarning /\ progress = ProgressReset)

\* Decrypt ran on an unprotected source and ended on its warning.
C12_Witness ==
    /\ StateConflict
    /\ security_dropdown = "Decrypt PDF"
    /\ pc = "done"
    /\ pdf_reader = Reader(SecuredDoc)
    /\ snack = Snack("warning", "PDF is not encrypted")

\* Decrypt or Remove Password with a password that is neither the user nor
\* the owner password of the encrypted source.
WrongPassword ==
    /\ SecuredDoc.ok
    /\ SecuredDoc.encrypted
    /\ security_dropdown \in DecryptingOperations
    /\ password_input \notin {SecuredDoc.user_pwd, SecuredDoc.owner_pwd}

\* C13: with a password that does not authenticate, Decrypt and Remove
\* Password copy no page, create no output file, and end with the
\* "Incorrect password" error.
C13_WrongPasswordFails ==
    WrongPassword =>
        /\ pdf_writer = <<>>
        /\ DOMAIN files = {}
        /\ pc = "done" =>
               (snack = Snack("error", "Incorrect password") /\ progress = ProgressReset)

\* C14: every output Add Permission Password has written is protected with
\* an empty user password and a non-empty owner password; every output
\* Encrypt has written has a non-empty user password and a non-empty owner
\* password.
C14_PasswordsOfOutputs ==
    \A f \in DOMAIN files :
        files[f].complete =>
            /\ f.op = "permission_added" =>
                   (files[f].user_pwd = "" /\ files[f].owner_pwd # "")
            /\ f.op = "encrypted" =>
                   (files[f].user_pwd # "" /\ files[f].owner_pwd # "")

\* Add Permission Password has written its output.
C14_Witness ==
    /\ security_dropdown = "Add Permission Password"
    /\ pc = "done"
    /\ snack.color = "success"
    /\ SecurityOutput("report.pdf", "permission_added") \in DOMAIN files
    /\ files[SecurityOutput("report.pdf", "permission_added")].complete
    /\ files[SecurityOutput("report.pdf", "permission_added")].owner_pwd = password_input

\* C19: the pages of an encrypted source are copied only when the password
\* given authenticates against it.
C19_NoReadBeforeAuthentication ==
    (SecuredDoc.ok /\ SecuredDoc.encrypted /\ pdf_writer # <<>>) =>
        password_input \in {SecuredDoc.user_pwd, SecuredDoc.owner_pwd}

(***************************************************************************)
(* Compress: PDFMerger.start_compress and the worker _compress_pdf.  The   *)
(* two sliders are read and not used by the save, so they are left out.    *)
(***************************************************************************)
\* The byte sizes a file can have in this model.
Sizes == (0..MaxSize) \cup {LargeSize, LargeSize + 1}

\* A readable document of n pages stored in size bytes.
SizedDoc(n, size) ==
    [ok |-> TRUE, pages |-> MkDoc("report.pdf", n).pages, size |-> size]

\* A file of size bytes that is no PDF (a file of 0 bytes never is one).
SizedJunk(size) == [ok |-> FALSE, pages |-> <<>>, size |-> size]

\* What doc.save leaves: the document in size bytes.
Saved(pages, size) == [complete |-> TRUE, pages |-> pages, size |-> size]

\* merge.py 711-714
CompressOutput(path) == OutName(<<>>, BaseName(path), "compressed", 0)

Abs(x) == IF x < 0 THEN -x ELSE x

\* num / den rounded to the nearest integer, a tie to the even one, for
\* num >= 0 and den > 0
RoundHalfEven(num, den) ==
    LET q == num \div den
        r == num % den
    IN IF 2 * r < den THEN q
       ELSE IF 2 * r > den THEN q + 1
       ELSE IF q % 2 = 0 THEN q ELSE q + 1

\* A report that shows no reduction when the file grew.
ReductionPercent_Clamped(original, new) ==
    IF original > 0 /\ new < original
    THEN [negative |-> FALSE,
          tenths |-> RoundHalfEven(1000 * (original - new), original)]
    ELSE [negative |-> FALSE, tenths |-> 0]

\* merge.py 752-753 and the "{reduction_percent:.1f}" of line 772: the sign
\* and the tenths of a percent the message shows
ReductionPercent(original, new) ==
    IF original > 0
    THEN [negative |-> new > original,
          tenths |-> RoundHalfEven(1000 * Abs(original - new), original)]
    ELSE [negative |-> FALSE, tenths |-> 0]

compress_frame ==
    <<client_storage, disk, dirs, page_numbers, total_pages, pdf_writer, i,
      controls, split_state, pages_to_rotate, rotation, crop_vars,
      security_vars, threads, late_vars>>

\* merge.py 682-699
start_compress ==
    /\ pc = "idle"
    /\ current_file' = StoredPath
    /\ IF StoredPath = NoFile
       THEN /\ snack' = Snack("warning", "Please select a PDF file first")
            /\ UNCHANGED pc
       ELSE IF ~HasPdfSuffix(StoredPath)
       THEN /\ snack' = Snack("warning", "Please select a PDF file")
            /\ UNCHANGED pc
       ELSE /\ pc' = "compress_open"
            /\ UNCHANGED snack
    /\ UNCHANGED <<files, progress, doc, compress_vars>>
    /\ UNCHANGED compress_frame

\* merge.py 704-721
compress_open ==
    /\ pc = "compress_open"
    /\ original_size' = disk[current_file].size
    /\ IF disk[current_file].ok
       THEN /\ doc' = disk[current_file].pages
            /\ progress' = ProgressAt(900, "Saving compressed PDF...")
            /\ pc' = "compress_save"
            /\ UNCHANGED snack
       ELSE /\ Raise("Error compressing PDF")
            /\ UNCHANGED doc
    /\ UNCHANGED <<files, current_file, new_size, reduction_percent>>
    /\ UNCHANGED compress_frame

\* merge.py 741-748: doc.save writes the file, in as many bytes as it takes,
\* or raises before or while writing it
compress_save ==
    /\ pc = "compress_save"
    /\ \/ \E size \in Sizes \ {0} :
              /\ files' = (CompressOutput(current_file) :> Saved(doc, size)) @@ files
              /\ pc' = "compress_report"
              /\ UNCHANGED <<progress, snack>>
       \/ /\ Raise("Error compressing PDF")
          /\ files' = (CompressOutput(current_file) :> Truncated) @@ files
       \/ /\ Raise("Error compressing PDF")
          /\ UNCHANGED files
    /\ UNCHANGED <<current_file, doc, compress_vars>>
    /\ UNCHANGED compress_frame

\* merge.py 751-774
compress_report ==
    /\ pc = "compress_report"
    /\ new_size' = files[CompressOutput(current_file)].size
    /\ reduction_percent' = ReductionPercent(original_size, new_size')
    /\ progress' = ProgressReset
    /\ snack' = Snack("success", "PDF compressed")
    /\ pc' = "done"
    /\ UNCHANGED <<files, current_file, doc, original_size>>
    /\ UNCHANGED compress_frame

CompressDocs ==
    {SizedDoc(n, size) : n \in 1..MaxEditPages, size \in Sizes \ {0}}
        \cup {SizedJunk(size) : size \in Sizes}

InitCompress ==
    /\ client_storage \in {NoFile} \cup StoredPaths
    /\ disk \in [{"report.pdf"} -> CompressDocs]
    /\ ExtractDefaults
    /\ MergeDefaults
    /\ SplitDefaults
    /\ EditDefaults
    /\ CropDefaults
    /\ SecurityDefaults
    /\ InsertDefaults
    /\ Fresh

NextCompress ==
    \/ start_compress
    \/ compress_open
    \/ compress_save
    \/ compress_report

SpecCompress == InitCompress /\ [][NextCompress]_vars

(***************************************************************************)
(* Compress: the claim.                                                    *)
(***************************************************************************)
CompressReported == pc = "done" /\ snack = Snack("success", "PDF compressed")

\* C15: the reduction Compress reports is computed from the byte sizes the
\* input and the output have on disk; it is shown negative when the output
\* is larger than the input, and it is the true percentage to the nearest
\* tenth, so it is zero only when the true value is within 0.05 of zero.
C15_TrueReduction ==
    CompressReported =>
        LET o == disk[current_file].size
            n == files[CompressOutput(current_file)].size
        IN /\ original_size = o
           /\ new_size = n
           /\ n > o => reduction_percent.negative
           /\ n <= o => ~reduction_percent.negative
           /\ 2 * Abs(1000 * Abs(o - n) - reduction_percent.tenths * o) <= o

\* A compression whose output is larger than its input was reported, with a
\* reduction that is negative and not zero.
C15_Witness ==
    /\ CompressReported
    /\ new_size > original_size
    /\ reduction_percent.negative
    /\ reduction_percent.tenths > 0

(***************************************************************************)
(* Output files and failures: claims checked on Split.                     *)
(***************************************************************************)
SplitFailed == pc = "done" /\ snack.color \in {"error", "warning"}

\* C16: at every point of a Split every output file that exists is complete,
\* and a Split that failed has left no output file behind.
C16_AtomicOutputs ==
    /\ \A f \in DOMAIN files : files[f].complete
    /\ (pc = "done" /\ snack.color = "error") => DOMAIN files = {}

\* C17: a Split that ended in a failure or a refusal has created no output
\* file and no output directory.
C17_FailureLeavesNothing ==
    SplitFailed => (DOMAIN files = {} /\ dirs = {})

(***************************************************************************)
(* Threads: what the handlers start when they are triggered again while a  *)
(* worker is running.  The sections above follow one worker at a time;     *)
(* here each trigger of start_split or start_editing starts a thread of    *)
(* its own, as threading.Thread(...).start() does, and a thread is         *)
(* followed from the opening of the document to its end.                   *)
(***************************************************************************)
\* utils.py 18-33 and merge.py 489-491: the name of an output, made of the
\* input's base name, the operation and the second the name is made in
StampedName(path, operation, time) ==
    [base |-> BaseName(path), op |-> operation, time |-> time]

NoOutput == [base |-> NoFile, op |-> "", time |-> 0]

\* A thread as the handler starts it: `started` is the file the handler
\* checked, `file` the file the worker opened and `out` the output name it
\* derived, once it has.
Thread(target, path) ==
    [target |-> target, pc |-> "started", started |-> path, file |-> NoFile,
     out |-> NoOutput]

ThreadTag(target) ==
    CASE target = "_split_pdf" -> "split"
      [] target = "rotate_pages" -> "rotated"

threads_frame ==
    <<client_storage, disk, files, dirs, pc, page_numbers, total_pages,
      pdf_writer, i, controls, split_state, edit_state, crop_vars,
      security_vars, compress_vars, insert_controls, app_current_file,
      selected_idx, buttons, loop_list, worker_password>>

\* merge.py 451-468, triggered at any time
start_split_thread ==
    /\ Len(threads) < MaxThreads
    /\ current_file' = StoredPath
    /\ IF StoredPath = NoFile
       THEN /\ snack' = Snack("warning", "Please select a PDF file first")
            /\ UNCHANGED threads
       ELSE IF ~HasPdfSuffix(StoredPath)
       THEN /\ snack' = Snack("warning", "Please select a PDF file")
            /\ UNCHANGED threads
       ELSE /\ threads' = Append(threads, Thread("_split_pdf", StoredPath))
            /\ UNCHANGED snack
    /\ UNCHANGED <<progress, clock>>
    /\ UNCHANGED threads_frame

\* edit.py 356-379, triggered at any time
start_editing_thread ==
    /\ Len(threads) < MaxThreads
    /\ IF edit_dropdown = NoFile
       THEN /\ snack' = Snack("warning", "Please select an edit operation")
            /\ UNCHANGED <<threads, current_file>>
       ELSE /\ current_file' = StoredPath
            /\ IF StoredPath = NoFile
               THEN /\ snack' = Snack("warning", "Please select a PDF file first")
                    /\ UNCHANGED threads
               ELSE IF ~HasPdfSuffix(StoredPath)
               THEN /\ snack' = Snack("warning", "Please select a PDF file")
                    /\ UNCHANGED threads
               ELSE /\ threads' = Append(threads, Thread("rotate_pages", StoredPath))
                    /\ UNCHANGED snack
    /\ UNCHANGED <<progress, clock>>
    /\ UNCHANGED threads_frame

\* merge.py 473-481 and edit.py 633-658: a started thread opens the file
\* its engine's current_file field names by then
thread_open ==
    \E t \in 1..Len(threads) :
        /\ threads[t].pc = "started"
        /\ IF current_file \in DOMAIN disk /\ disk[current_file].ok
           THEN /\ threads' = [threads EXCEPT ![t].pc = "open",
                                              ![t].file = current_file]
                /\ progress' = ProgressAt(100, "Starting...")
                /\ UNCHANGED snack
           ELSE /\ threads' = [threads EXCEPT ![t].pc = "done",
                                              ![t].file = current_file]
                /\ progress' = ProgressReset
                /\ snack' = Snack("error", "Error")
        /\ UNCHANGED <<current_file, clock>>
        /\ UNCHANGED threads_frame

\* merge.py 489-492 and edit.py 651-654: the thread reads current_file
\* again and the clock, for the name of its output; a field that holds None
\* by then makes os.path.basename raise.  (rotate_pages makes the name
\* before it opens the file; the two reads are the same two.)
thread_name ==
    \E t \in 1..Len(threads) :
        /\ threads[t].pc = "open"
        /\ IF current_file = NoFile
           THEN /\ threads' = [threads EXCEPT ![t].pc = "done"]
                /\ progress' = ProgressReset
                /\ snack' = Snack("error", "Error")
           ELSE /\ threads' =
                       [threads EXCEPT
                           ![t].pc = "named",
                           ![t].out = StampedName(current_file,
                                                  ThreadTag(threads[t].target),
                                                  clock)]
                /\ UNCHANGED <<progress, snack>>
        /\ UNCHANGED <<current_file, clock>>
        /\ UNCHANGED threads_frame

\* merge.py 494-580 and edit.py 686-714: the thread writes its output and
\* is through, by success or by an exception
thread_close ==
    \E t \in 1..Len(threads) :
        /\ threads[t].pc = "named"
        /\ threads' = [threads EXCEPT ![t].pc = "done"]
        /\ progress' = ProgressReset
        /\ \E color \in {"success", "error"} : snack' = Snack(color, "Ended")
        /\ UNCHANGED <<current_file, clock>>
        /\ UNCHANGED threads_frame

\* The collaborator stores another file, or none, under "current_file".
store_file ==
    /\ client_storage' \in ({NoFile} \cup StoredPaths) \ {client_storage}
    /\ UNCHANGED <<disk, files, dirs, progress, snack, current_file, pc,
                   page_numbers, total_pages, pdf_writer, i, controls,
                   split_state, edit_state, other_engines>>

\* A second passes.
tick ==
    /\ clock < MaxClock
    /\ clock' = clock + 1
    /\ UNCHANGED <<client_storage, disk, files, dirs, progress, snack,
                   current_file, pc, page_numbers, total_pages, pdf_writer, i,
                   controls, split_state, edit_state, crop_vars, security_vars,
                   compress_vars, threads, insert_controls, app_current_file,
                   selected_idx, buttons, loop_list, worker_password>>

InitThreads ==
    /\ client_storage \in {NoFile} \cup StoredPaths
    /\ disk \in [{"report.pdf"} -> InputDocs]
    /\ edit_dropdown \in {NoFile, "Rotate Pages"}
    /\ rotation_str = "90 Clockwise"
    /\ pages_option = "All Pages"
    /\ rotate_range = <<>>
    /\ rotate_range_visible = FALSE
    /\ ExtractDefaults
    /\ MergeDefaults
    /\ SplitDefaults
    /\ CropDefaults
    /\ SecurityDefaults
    /\ InsertDefaults
    /\ Fresh

NextThreads ==
    \/ start_split_thread
    \/ start_editing_thread
    \/ thread_open
    \/ thread_name
    \/ thread_close
    \/ store_file
    \/ tick

SpecThreads == InitThreads /\ [][NextThreads]_vars

\* C18: no two worker threads have the same document open at the same
\* time.
C18_OneWorkerPerDocument ==
    \A a, b \in 1..Len(threads) :
        (a # b /\ threads[a].pc \in {"open", "named"}
               /\ threads[b].pc \in {"open", "named"})
            => threads[a].file # threads[b].file

(***************************************************************************)
(* Termination of the Split worker.  The thread start_split starts is      *)
(* scheduled until it returns: its steps are taken under weak fairness.    *)
(* The handler runs only when the user clicks, so it is under none.        *)
(***************************************************************************)
SplitWorker ==
    \/ split_open
    \/ split_mkdir
    \/ split_page
    \/ split_page_write
    \/ split_part
    \/ split_part_write
    \/ split_finish

SpecSplitFair == InitSplit /\ [][NextSplit]_vars /\ WF_vars(SplitWorker)

SplitRunning == pc \notin {"idle", "done"}

\* C20: a started Split worker always comes to its end, and at its end,
\* reached by success, by refusal or by an exception at any step, a
\* notification has been shown and the progress display is reset.
C20_WorkerTerminates ==
    /\ [](pc = "done" => (snack # NoSnack /\ progress = ProgressReset))
    /\ SplitRunning ~> (pc = "done")

\* The worker ended by an exception raised after the output directory
\* was made.
C20_Witness ==
    /\ pc = "done"
    /\ snack.color = "error"
    /\ progress = ProgressReset
    /\ dirs # {}

(***************************************************************************)
(* The handler's password checks: claims checked on the security engine.   *)
(***************************************************************************)
InvalidPassword ==
    password_input = "" \/ password_input # confirm_password

\* C21: with an empty password, or one that differs from its confirmation,
\* Encrypt and Add Permission Password start no worker: the handler shows
\* a warning or an error, and no output file ever exists.
C21_InvalidPasswordRefused ==
    /\ []((security_dropdown \in EncryptingOperations /\ InvalidPassword)
            => (pc = "idle" /\ DOMAIN files = {}))
    /\ [][(start_security_operation
            /\ security_dropdown \in EncryptingOperations
            /\ InvalidPassword)
          => (pc' = "idle" /\ snack'.color \in {"warning", "error"})]_vars

\* A file is selected and the handler refused the password that differs
\* from its confirmation.
C21_Witness ==
    /\ security_dropdown \in EncryptingOperations
    /\ password_input # ""
    /\ password_input # confirm_password
    /\ current_file = "report.pdf"
    /\ snack = Snack("error", "Passwords do not match")
    /\ pc = "idle"

(***************************************************************************)
(* Insert: PDFEditor.add_text, add_image and add_watermark.  The three     *)
(* workers have one shape: check the content, open the document, insert    *)
(* into each page of enumerate(doc), save.  A page carries the number of   *)
(* insertions made into it.  The size, colour and position fields keep the *)
(* values build_ui gives them, which parse.                                *)
(***************************************************************************)
InsertOperations == {"Add Text", "Add Image", "Add Watermark"}

\* edit.py 393, 463 and 550: the content the operation asks for is missing
InsertRefused(operation, c) ==
    CASE operation = "Add Text" -> c.text = ""
      [] operation = "Add Image" -> c.selected_image = NoFile
      [] operation = "Add Watermark" -> c.watermark_text = ""

InsertWarning(operation) ==
    CASE operation = "Add Text" -> "Please enter text to add"
      [] operation = "Add Image" -> "Please select an image first"
      [] operation = "Add Watermark" -> "Please enter watermark text"

\* edit.py 399-402, 477-480 and 578-581
InsertOutput(operation, path) ==
    OutName(<<>>, BaseName(path),
            CASE operation = "Add Text" -> "text_added"
              [] operation = "Add Image" -> "image_added"
              [] operation = "Add Watermark" -> "watermarked",
            0)

\* A page as fitz.open gives it: nothing inserted yet.
Unmarked(page) ==
    [src |-> page.src, idx |-> page.idx, rot |-> page.rot, marks |-> 0]

InsertOnce_Twice(page) == [page EXCEPT !.marks = @ + 2]

\* edit.py 429, 506 and 594: page.insert_text / page.insert_image
InsertOnce(page) == [page EXCEPT !.marks = @ + 1]

insert_frame ==
    <<client_storage, disk, dirs, current_file, page_numbers, total_pages,
      pdf_writer, controls, split_state, pages_to_rotate, rotation,
      crop_vars, security_vars, compress_vars, threads, late_vars>>

\* edit.py 384-406, 461-484 and 538-585
insert_open ==
    /\ pc = "insert_open"
    /\ IF InsertRefused(edit_dropdown, insert_controls)
       THEN /\ snack' = Snack("warning", InsertWarning(edit_dropdown))
            /\ progress' = ProgressReset
            /\ pc' = "done"
            /\ UNCHANGED <<doc, i>>
       ELSE IF ~disk[current_file].ok
       THEN /\ Raise("Error adding to PDF")
            /\ UNCHANGED <<doc, i>>
       ELSE /\ doc' = [k \in 1..Len(disk[current_file].pages) |->
                          Unmarked(disk[current_file].pages[k])]
            /\ i' = 0
            /\ progress' = ProgressAt(500, "Adding to PDF...")
            /\ pc' = "insert_page"
            /\ UNCHANGED snack
    /\ UNCHANGED files
    /\ UNCHANGED insert_frame

\* edit.py 421-444, 487-519 and 587-612: one iteration of
\* `for i, page in enumerate(doc)`; the insertion is made or raises
insert_page ==
    /\ pc = "insert_page"
    /\ IF i < Len(doc)
       THEN \/ /\ doc' = [doc EXCEPT ![i + 1] = InsertOnce(@)]
               /\ progress' = ProgressAt(EditLoopProgress(i + 1, Len(doc)),
                                         "Adding to page")
               /\ i' = i + 1
               /\ UNCHANGED <<pc, snack>>
            \/ /\ Raise("Error adding to PDF")
               /\ UNCHANGED <<doc, i>>
       ELSE /\ progress' = ProgressAt(900, "Saving modified PDF...")
            /\ pc' = "insert_save"
            /\ UNCHANGED <<doc, i, snack>>
    /\ UNCHANGED files
    /\ UNCHANGED insert_frame

\* edit.py 447-449, 522-524 and 615-617: doc.save(output_file)
insert_save ==
    /\ pc = "insert_save"
    /\ \/ /\ files' = (InsertOutput(edit_dropdown, current_file) :> Written(doc))
                          @@ files
          /\ progress' = ProgressAt(1000, "Complete!")
          /\ pc' = "insert_finish"
          /\ UNCHANGED snack
       \/ /\ Raise("Error adding to PDF")
          /\ files' = (InsertOutput(edit_dropdown, current_file) :> Truncated)
                          @@ files
       \/ /\ Raise("Error adding to PDF")
          /\ UNCHANGED files
    /\ UNCHANGED <<doc, i>>
    /\ UNCHANGED insert_frame

\* edit.py 451-456, 526-531 and 619-624
insert_finish ==
    /\ pc = "insert_finish"
    /\ progress' = ProgressReset
    /\ snack' = Snack("success", "Successfully added to PDF")
    /\ pc' = "done"
    /\ UNCHANGED <<files, doc, i>>
    /\ UNCHANGED insert_frame

\* The contents tried in the insert controls.
InsertControls ==
    [text : {"", "hi"}, selected_image : {NoFile, "logo.png"},
     watermark_text : {"", "DRAFT"}]

\* The editor with any of its five operations chosen, and the controls of
\* the chosen operation set by the user.
InitEdit ==
    /\ client_storage \in {NoFile} \cup StoredPaths
    /\ edit_dropdown \in InsertOperations \cup {"Rotate Pages", "Crop Pages"}
    /\ disk \in [{"report.pdf"} ->
                    IF edit_dropdown = "Crop Pages" THEN CropDocs ELSE EditDocs]
    /\ insert_controls \in
           IF edit_dropdown \in InsertOperations THEN InsertControls
           ELSE {[text |-> "", selected_image |-> NoFile, watermark_text |-> ""]}
    /\ rotation_str \in
           IF edit_dropdown = "Rotate Pages" THEN AngleOptions ELSE {"90 Clockwise"}
    /\ pages_option \in
           IF edit_dropdown = "Rotate Pages" THEN PageOptions ELSE {"All Pages"}
    /\ rotate_range_visible = (pages_option = "Custom Range")
    /\ rotate_range \in IF rotate_range_visible THEN CropRangeStrings ELSE {<<>>}
    /\ IF edit_dropdown = "Crop Pages"
       THEN \E l \in MarginStrings, r \in MarginStrings, t \in MarginStrings,
               b \in MarginStrings, o \in PageOptions :
               \E v \in IF o = "Custom Range" THEN CropRangeStrings ELSE {<<>>} :
                   crop_controls =
                       [left |-> l, right |-> r, top |-> t, bottom |-> b,
                        pages |-> o, range |-> v,
                        range_visible |-> (o = "Custom Range")]
       ELSE CropDefaults
    /\ ExtractDefaults
    /\ MergeDefaults
    /\ SplitDefaults
    /\ SecurityDefaults
    /\ Fresh

NextEdit ==
    \/ start_editing
    \/ insert_open
    \/ insert_page
    \/ insert_save
    \/ insert_finish
    \/ rotate_open
    \/ rotate_page
    \/ rotate_save
    \/ rotate_finish
    \/ crop_open
    \/ crop_page
    \/ crop_save
    \/ crop_finish

SpecEdit == InitEdit /\ [][NextEdit]_vars

(***************************************************************************)
(* Which pages an edit changes.                                            *)
(***************************************************************************)
\* The pages Crop targets, 0-based, in a document of n pages.
CropTargets(n) ==
    LET r == PagesToCrop(crop_controls.pages,
                         IF crop_controls.range_visible
                         THEN crop_controls.range ELSE <<>>, n)
    IN {r.pages[k] : k \in 1..Len(r.pages)} \cap 0..(n - 1)

\* The complete output a run has written under `name` has the pages of the
\* input, and those outside `targets` as they were.
OthersUntouched(name, targets) ==
    (name \in DOMAIN files /\ files[name].complete) =>
        /\ Len(files[name].pages) = Len(InputDoc.pages)
        /\ \A k \in 1..Len(InputDoc.pages) :
              (k - 1) \notin targets => files[name].pages[k] = InputDoc.pages[k]

\* C22: the output of Add Text, Add Image and Add Watermark has every page
\* of the input with the content inserted exactly once, whatever the page
\* controls hold; the output of Rotate and of Crop differs from the input
\* on the pages of the page set only.
C22_InsertEveryPage ==
    /\ \A op \in InsertOperations :
          LET name == InsertOutput(op, "report.pdf") IN
          (name \in DOMAIN files /\ files[name].complete) =>
              /\ Len(files[name].pages) = Len(InputDoc.pages)
              /\ \A k \in 1..Len(InputDoc.pages) :
                    files[name].pages[k] =
                        [Unmarked(InputDoc.pages[k]) EXCEPT !.marks = 1]
    /\ OthersUntouched(RotateOutput("report.pdf"),
                       TargetedPages(Len(InputDoc.pages)))
    /\ OthersUntouched(CropOutput("report.pdf"),
                       CropTargets(Len(InputDoc.pages)))

\* A watermark was added to a document of two pages.
C22_Witness ==
    /\ edit_dropdown = "Add Watermark"
    /\ pc = "done"
    /\ snack.color = "success"
    /\ Len(InputDoc.pages) = 2
    /\ files[InsertOutput("Add Watermark", "report.pdf")].complete
    /\ files[InsertOutput("Add Watermark", "report.pdf")].pages[2].marks = 1

(***************************************************************************)
(* Crop: the box of a targeted page.                                       *)
(***************************************************************************)
\* C23: in the output of Crop every targeted page has its original box
\* inset once by the margins, also when the range names the page more than
\* once; with all margins 0 the box is the original box.
C23_CropInsetOnce ==
    LET name == CropOutput("report.pdf")
        m == CropMargins(crop_controls)
    IN (name \in DOMAIN files /\ files[name].complete) =>
           \A k \in 1..Len(InputDoc.pages) :
               (k - 1) \in CropTargets(Len(InputDoc.pages)) =>
                   files[name].pages[k].box = CropRect(InputDoc.pages[k].box, m)

(***************************************************************************)
(* Rotate and Crop with an empty custom range.                             *)
(***************************************************************************)
\* The operation chosen is Rotate or Crop with "Custom Range" and a range
\* field that is empty or hidden.
EmptyCustomRange ==
    \/ /\ edit_dropdown = "Rotate Pages"
       /\ pages_option = "Custom Range"
       /\ (rotate_range = <<>> \/ ~rotate_range_visible)
    \/ /\ edit_dropdown = "Crop Pages"
       /\ crop_controls.pages = "Custom Range"
       /\ (crop_controls.range = <<>> \/ ~crop_controls.range_visible)

\* C24: Rotate and Crop with "Custom Range" and an empty range write no
\* output file and do not end with a success notification.
C24_EmptyRangeFails ==
    EmptyCustomRange =>
        /\ DOMAIN files = {}
        /\ ~(pc = "done" /\ snack.color = "success")

(***************************************************************************)
(* The file picker of the application (main.py) in front of Split.         *)
(***************************************************************************)
\* What the picker can return: nothing (the dialog was cancelled) or one
\* file.
PickerResults == {NoFile, "report.pdf", "notes.docx"}

\* main.py 45-52: the picked file is kept in the application's own
\* current_file field; nothing is written to the page's client storage
on_file_drop ==
    /\ pc = "idle"
    /\ \E picked \in PickerResults :
          app_current_file' = IF picked # NoFile THEN picked ELSE app_current_file
    /\ UNCHANGED <<client_storage, disk, files, dirs, progress, snack,
                   current_file, pc, page_numbers, total_pages, pdf_writer, i,
                   controls, split_state, edit_state, crop_vars, security_vars,
                   compress_vars, threads, insert_controls, selected_idx,
                   buttons, loop_list, clock, worker_password>>

NextPicker ==
    \/ on_file_drop
    \/ NextSplit

SpecPicker == InitSplit /\ [][NextPicker]_vars

\* C25: once a PDF has been picked, triggering Split is not refused with
\* 'Please select a PDF file first': the worker starts, on the picked file.
C25_PickedFileIsUsed ==
    [][(start_split /\ HasPdfSuffix(app_current_file))
          => /\ snack'.text # "Please select a PDF file first"
             /\ pc' # "idle"
             /\ current_file' = app_current_file]_vars

(***************************************************************************)
(* The file list of the merge tab: on_pdfs_selected, _select_file_item,    *)
(* move_file_up, move_file_down and remove_file.  A handler bound to a     *)
(* button runs only while the button is enabled.  The handlers run on the  *)
(* UI thread at any time, also while the merge worker is running.          *)
(***************************************************************************)
\* merge.py 325-326 and 350-351: the tuple assignment that swaps two
\* entries, 0-based
Swap(list, a, b) ==
    [list EXCEPT ![a + 1] = list[b + 1], ![b + 1] = list[a + 1]]

\* merge.py 381: list.pop(k), 0-based
Pop(list, k) == SubSeq(list, 1, k) \o SubSeq(list, k + 2, Len(list))

list_frame ==
    <<client_storage, disk, files, dirs, progress, snack, current_file, pc,
      page_numbers, total_pages, pdf_writer, i, page_range, split_method,
      pages_per_file, edit_dropdown, rotation_str, pages_option, rotate_range,
      rotate_range_visible, split_state, edit_state, crop_vars, security_vars,
      compress_vars, threads, insert_controls, app_current_file, clock,
      worker_password>>

\* What the dialog hands over: nothing, or files in the order of their
\* names.
PickedLists ==
    {<<>>, <<"a.pdf">>, <<"a.pdf", "b.pdf">>, <<"b.pdf", "c.pdf">>,
     <<"a.pdf", "b.pdf", "c.pdf">>}

\* merge.py 263-269: a cancelled dialog changes nothing; otherwise the field
\* is given a new list, and a loop that runs keeps the list it started on
on_pdfs_selected ==
    /\ \E fs \in PickedLists :
          IF fs = <<>>
          THEN UNCHANGED <<pdf_files, selected_idx, buttons, loop_list>>
          ELSE /\ pdf_files' = fs
               /\ selected_idx' = -1
               /\ buttons' = [buttons EXCEPT !.merge = MergeDisabled(fs)]
               /\ loop_list' =
                      IF pc = "merge_add" /\ loop_list.shared
                      THEN [shared |-> FALSE, list |-> pdf_files]
                      ELSE loop_list
    /\ UNCHANGED list_frame

\* merge.py 293-310
select_file_item ==
    /\ \E k \in 0..(Len(pdf_files) - 1) :
          /\ selected_idx' = k
          /\ buttons' = [buttons EXCEPT !.move_up = (k = 0),
                                        !.move_down = (k = Len(pdf_files) - 1),
                                        !.remove = FALSE]
    /\ UNCHANGED <<pdf_files, loop_list>>
    /\ UNCHANGED list_frame

\* merge.py 312-338
move_file_up ==
    /\ ~buttons.move_up
    /\ IF selected_idx # -1 /\ selected_idx > 0
       THEN /\ pdf_files' = Swap(pdf_files, selected_idx, selected_idx - 1)
            /\ selected_idx' = selected_idx - 1
            /\ buttons' =
                   [buttons EXCEPT
                       !.move_up = (selected_idx - 1 = 0),
                       !.move_down = (selected_idx - 1 = Len(pdf_files) - 1)]
       ELSE UNCHANGED <<pdf_files, selected_idx, buttons>>
    /\ UNCHANGED loop_list
    /\ UNCHANGED list_frame

\* merge.py 340-366
move_file_down ==
    /\ ~buttons.move_down
    /\ IF selected_idx # -1 /\ selected_idx < Len(pdf_files) - 1
       THEN /\ pdf_files' = Swap(pdf_files, selected_idx, selected_idx + 1)
            /\ selected_idx' = selected_idx + 1
            /\ buttons' =
                   [buttons EXCEPT
                       !.move_up = (selected_idx + 1 = 0),
                       !.move_down = (selected_idx + 1 = Len(pdf_files) - 1)]
       ELSE UNCHANGED <<pdf_files, selected_idx, buttons>>
    /\ UNCHANGED loop_list
    /\ UNCHANGED list_frame

\* merge.py 368-393
remove_file ==
    /\ ~buttons.remove
    /\ IF selected_idx # -1
       THEN /\ pdf_files' = Pop(pdf_files, selected_idx)
            /\ selected_idx' = -1
            /\ buttons' =
                   [merge |-> MergeDisabled(Pop(pdf_files, selected_idx)),
                    move_up |-> TRUE, move_down |-> TRUE, remove |-> TRUE]
       ELSE UNCHANGED <<pdf_files, selected_idx, buttons>>
    /\ UNCHANGED loop_list
    /\ UNCHANGED list_frame

\* The merge tab as build_ui leaves it, with readable files of one page on
\* the disk.
InitList ==
    /\ client_storage = NoFile
    /\ disk = [p \in MergePaths |-> MkDoc(p, 1)]
    /\ MergeDefaults
    /\ ExtractDefaults
    /\ SplitDefaults
    /\ EditDefaults
    /\ CropDefaults
    /\ SecurityDefaults
    /\ InsertDefaults
    /\ Fresh

NextList ==
    \/ on_pdfs_selected
    \/ select_file_item
    \/ move_file_up
    \/ move_file_down
    \/ remove_file
    \/ NextMerge

SpecList == InitList /\ [][NextList]_vars

(***************************************************************************)
(* The file list: claims.                                                  *)
(***************************************************************************)
MergeRunning == pc \notin {"idle", "done"}

\* C26: from the trigger of a merge to its end the list of sources the
\* worker goes through stays the list that was selected at the trigger,
\* whatever is moved, removed or selected meanwhile, and a merge that
\* succeeds has merged at least 2 sources (of one page each here).
C26_MergeListFixed ==
    /\ [][MergeRunning => LoopList' = LoopList]_vars
    /\ [](MergeSucceeded => Len(files[MergeOutput].pages) >= 2)

\* C30: the Merge button is disabled exactly when the list holds fewer
\* than 2 files; a move up or down leaves the same files, as many as
\* before; a remove takes out the selected entry and no other.
C30_ListActions ==
    /\ [](buttons.merge = (Len(pdf_files) < 2))
    /\ [][(move_file_up \/ move_file_down) =>
             /\ Len(pdf_files') = Len(pdf_files)
             /\ {pdf_files'[k] : k \in 1..Len(pdf_files')}
                    = {pdf_files[k] : k \in 1..Len(pdf_files)}]_vars
    /\ [][(remove_file /\ selected_idx # -1) =>
             /\ Len(pdf_files') = Len(pdf_files) - 1
             /\ \A k \in 1..Len(pdf_files') :
                   pdf_files'[k] =
                       IF k <= selected_idx THEN pdf_files[k] ELSE pdf_files[k + 1]]_vars

\* Two files are listed, none selected, and the Merge button is enabled:
\* the list after a selection of two files, or after the removal of a third.
C30_Witness ==
    /\ pdf_files = <<"b.pdf", "c.pdf">>
    /\ selected_idx = -1
    /\ buttons = [merge |-> FALSE, move_up |-> TRUE, move_down |-> TRUE,
                  remove |-> TRUE]
    /\ pc = "idle"

(***************************************************************************)
(* Threads: the shared current_file field and the names of the outputs.    *)
(***************************************************************************)
\* C27: the file a worker opens, and the file it derives its output name
\* from, is the file the worker was started on, whatever is triggered on
\* the same engine meanwhile.
C27_OneInputPerWorker ==
    \A t \in 1..Len(threads) :
        /\ threads[t].pc # "started" => threads[t].file = threads[t].started
        /\ threads[t].out # NoOutput =>
               threads[t].out.base = BaseName(threads[t].started)

\* C29: two workers that are writing at the same time write to different
\* output names.
C29_DistinctOutputs ==
    \A a, b \in 1..Len(threads) :
        (a # b /\ threads[a].pc = "named" /\ threads[b].pc = "named")
            => threads[a].out # threads[b].out

(***************************************************************************)
(* The password field edited while a security worker runs.                 *)
(***************************************************************************)
\* security.py 46-52: the user types another value into the password field
edit_password ==
    /\ password_input' \in Passwords \ {password_input}
    /\ UNCHANGED <<client_storage, disk, files, dirs, progress, snack,
                   current_file, pc, page_numbers, total_pages, pdf_writer, i,
                   controls, split_state, edit_state, crop_vars,
                   security_dropdown, confirm_password, permissions, pdf_reader,
                   encryption_flags, compress_vars, threads, late_vars>>

NextSecurityEdit ==
    \/ edit_password
    \/ NextSecurity

SpecSecurityEdit == InitSecurity /\ [][NextSecurityEdit]_vars

\* C28: an output of Encrypt or Add Permission Password is protected with
\* the password the handler validated, which is not empty and equals the
\* confirmation, whatever is typed into the password field after the
\* trigger.
C28_ValidatedPasswordApplied ==
    \A tag \in {"encrypted", "permission_added"} :
        LET name == SecurityOutput("report.pdf", tag) IN
        (name \in DOMAIN files /\ files[name].complete) =>
            /\ files[name].owner_pwd # ""
            /\ files[name].owner_pwd = confirm_password

=============================================================================
